---- MODULE Spec2Model ----
(***************************************************************************)
(* A model of the goNEON demo front end (Lanzelot1/demo-goneon):           *)
(*   - the module-level GeoJSON cache, its periodic sweep and the          *)
(*     GET /geojson-data endpoint;                                         *)
(*   - the tool execution layer (design_parking, jump_to_location) with    *)
(*     the GeoJSON file store and the GET /network-data endpoint;          *)
(*   - the chat UI's map-state synchronizer (the tool-output effect).      *)
(* Each subsystem has its own specification over the shared variables;     *)
(* Spec composes them.                                                     *)
(***************************************************************************)
EXTENDS Integers, Sequences, FiniteSets, TLC

VARIABLES
  \* ---- lib/geojson-cache + api/geojson-data
  geojsonCache,     \* Map<string, CachedGeoJSON>: a function on the keys present
  now,              \* Date.now(), in milliseconds since the module was loaded
  nextSweep,        \* the time the setInterval callback is due next
  geojsonGET,       \* the last GET /geojson-data: request, response, age served
  \* ---- api/chat tools + api/network-data + public/data
  files,            \* public/data: file path -> contents, or NoFile
  lastCall,         \* the last tool invocation or GET /network-data, with its outcome
  \* ---- components/chat/chat-interface + app/page
  messages,              \* useChat's message list
  chatStatus,            \* useChat's status: ready, submitted, streaming
  promptCount,           \* useState(0)
  promptLimit,           \* useState(5), or the URL's limit
  betaBookingEnabled,    \* useState(true), or false for beta=off
  processedToolOutputs,  \* useRef(new Set())
  effectPending,         \* a render is committed whose tool-output effect has not run
  applied,               \* the tool outputs the effect has applied, in order
  mapState,              \* page.tsx: useState<MapState>
  locationHref,          \* window.location.href once a navigation was started
  \* ---- analyzeNetwork on one map file
  mapFile,               \* the features of public/data/Maps/<map>.geojson
  lastAnalysis,          \* the last analyzeNetwork call on it, with its result
  \* ---- NetworkOverlay layers on the 3D map
  overlaySource,         \* the revision of network-overlay.tsx that is built
  maps3dLibrary,         \* useMapsLibrary('maps3d') has returned the library
  map3d,                 \* the children of the gmp-map-3d element, in order
  overlays,              \* per layer: props, polylinesRef, the effect's cleanup
  promises,              \* the .then callbacks not yet run, oldest first
  drawn,                 \* per layer: what the draw pass of its effect created
  \* ---- GoogleMap3D: the data fetched for the live Map State
  pendingFetches,        \* the fetches whose .then callbacks have not run
  shownLanes,            \* polyline-3d.tsx: useState lanes, with the map asked
  overlayLayers          \* polyline-3d.tsx: useState overlayLayers

cacheVars == <<geojsonCache, now, nextSweep, geojsonGET>>

storeVars == <<files, lastCall>>

syncVars ==
  <<messages, chatStatus, promptCount, promptLimit, betaBookingEnabled,
    processedToolOutputs, effectPending, applied, mapState, locationHref>>

analyzeVars == <<mapFile, lastAnalysis>>

overlayVars == <<overlaySource, maps3dLibrary, map3d, overlays, promises, drawn>>

mapVars == <<pendingFetches, shownLanes, overlayLayers>>

vars ==
  <<geojsonCache, now, nextSweep, geojsonGET, files, lastCall, messages,
    chatStatus, promptCount, promptLimit, betaBookingEnabled,
    processedToolOutputs, effectPending, applied, mapState, locationHref,
    mapFile, lastAnalysis, overlaySource, maps3dLibrary, map3d, overlays,
    promises, drawn, pendingFetches, shownLanes, overlayLayers>>

\* What the handlers of one subsystem leave alone.
notCacheVars == <<storeVars, syncVars, analyzeVars, overlayVars, mapVars>>

notStoreVars == <<cacheVars, syncVars, analyzeVars, overlayVars, mapVars>>

notSyncVars == <<cacheVars, storeVars, analyzeVars, overlayVars, mapVars>>

notAnalyzeVars == <<cacheVars, storeVars, syncVars, overlayVars, mapVars>>

notOverlayVars == <<cacheVars, storeVars, syncVars, analyzeVars, mapVars>>

\* The map widget changes the page's Map State and its own data only.
notMapVars ==
  <<cacheVars, storeVars, analyzeVars, overlayVars, messages, chatStatus,
    promptCount, promptLimit, betaBookingEnabled, effectPending>>

(***************************************************************************)
(* GeoJSON cache: src/unnamed/part_001 (lib/geojson-cache.ts) and          *)
(* src/unnamed/part_005 lines 299-337 (api/geojson-data/route.ts).         *)
(***************************************************************************)

\* The sweep's age threshold: 5 * 60 * 1000 ms.
CacheMaxAge == 5 * 60 * 1000

\* The setInterval period: 60 * 1000 ms.
SweepIntervalSlow == 2 * 60 * 1000

SweepInterval == 60 * 1000

\* The clock advances in steps of 30 s: entries are written both on and
\* between the sweep's ticks.
ClockStep == 30 * 1000

\* The modelled time horizon, in sweep periods.
MaxSweeps == 7

MaxNow == MaxSweeps * SweepInterval

SessionIds == {"s1", "s2"}

\* searchParams.get('sessionId'): null when the parameter is missing, and
\* possibly the empty string.
NoParam == "<null>"

SessionIdParams == SessionIds \cup {NoParam, ""}

CachedData == {"geojsonA", "geojsonB"}

\* `now - value.timestamp > 5 * 60 * 1000`
IsStaleInclusive(entry, t) == t - entry.timestamp >= CacheMaxAge

IsStale(entry, t) == t - entry.timestamp > CacheMaxAge

\* The body of the setInterval callback: every stale key is deleted.
SweptCache(cache, t) ==
  [k \in {j \in DOMAIN cache : ~IsStale(cache[j], t)} |-> cache[k]]

\* !sessionId: null and the empty string are falsy.
Falsy(s) == s = NoParam \/ s = ""

NoStore == "no-cache, no-store, must-revalidate"

\* A handler that also drops the entry it has served.
GeojsonDataCacheAfterEvicting(cache, sessionId) ==
  [k \in DOMAIN cache \ {sessionId} |-> cache[k]]

\* GET leaves the cache as it is.
GeojsonDataCacheAfter(cache, sessionId) == cache

\* The response of GET /geojson-data.
GeojsonDataResponse(cache, sessionId) ==
  IF Falsy(sessionId)
    THEN [status |-> 400, body |-> "sessionId parameter required",
          cacheControl |-> "default"]
  ELSE IF sessionId \notin DOMAIN cache
    THEN [status |-> 404, body |-> "Session not found or expired",
          cacheControl |-> "default"]
  ELSE [status |-> 200, body |-> cache[sessionId].data,
        cacheControl |-> NoStore]

NoRequest == [sessionId |-> NoParam, response |-> [status |-> 0, body |-> "",
              cacheControl |-> "default"], servedAge |-> -1]

CacheInit ==
  /\ geojsonCache = [k \in {} |-> 0]
  /\ now = 0
  /\ nextSweep = SweepInterval
  /\ geojsonGET = NoRequest

\* A due timer callback runs before any other callback of the same instant
\* (Node runs the timers phase before it polls for I/O).
TimerDue == now = nextSweep

\* Time passes; the interval timer fires at its scheduled time.
AdvanceClock ==
  /\ ~TimerDue
  /\ now + ClockStep <= MaxNow
  /\ now' = now + ClockStep
  /\ UNCHANGED <<geojsonCache, nextSweep, geojsonGET, notCacheVars>>

\* The setInterval callback.
CacheSweep ==
  /\ TimerDue
  /\ geojsonCache' = SweptCache(geojsonCache, now)
  /\ nextSweep' = nextSweep + SweepInterval
  /\ UNCHANGED <<now, geojsonGET, notCacheVars>>

\* A writer of the exported Map: an entry is written once under a fresh
\* session id, stamped with the current time.
CachePut(sessionId, data) ==
  /\ ~TimerDue
  /\ sessionId \notin DOMAIN geojsonCache
  /\ geojsonCache' =
       [k \in DOMAIN geojsonCache \cup {sessionId} |->
          IF k = sessionId THEN [data |-> data, timestamp |-> now]
          ELSE geojsonCache[k]]
  /\ UNCHANGED <<now, nextSweep, geojsonGET, notCacheVars>>

\* GET /geojson-data?sessionId=...
GeojsonDataGET(sessionId) ==
  /\ ~TimerDue
  /\ geojsonGET' =
       [sessionId |-> sessionId,
        response |-> GeojsonDataResponse(geojsonCache, sessionId),
        servedAge |-> IF ~Falsy(sessionId) /\ sessionId \in DOMAIN geojsonCache
                        THEN now - geojsonCache[sessionId].timestamp ELSE -1]
  /\ geojsonCache' = GeojsonDataCacheAfter(geojsonCache, sessionId)
  /\ UNCHANGED <<now, nextSweep, notCacheVars>>

CacheNext ==
  \/ AdvanceClock
  \/ CacheSweep
  \/ \E s \in SessionIds, d \in CachedData : CachePut(s, d)
  \/ \E s \in SessionIdParams : GeojsonDataGET(s)

(***************************************************************************)
(* GeoJSON file store (public/data) and GET /network-data:                 *)
(* src/src/app/api/network-data/route.ts lines 1-59.                       *)
(***************************************************************************)

\* A JavaScript object is a function on its own keys.
Has(o, f) == f \in DOMAIN o

EmptyObject == [k \in {} |-> 0]

\* { ...a, ...b }
Spread(a, b) ==
  [k \in DOMAIN a \cup DOMAIN b |-> IF k \in DOMAIN b THEN b[k] ELSE a[k]]

\* The directory name as network-data/route.ts and page.tsx spell it:
\* z, U+00FC, rich.
ZurichDir == "z[U+00FC]rich"

\* The directory name as chat/route.ts spells it (lines 605, 646, 647):
\* z, U+221A, U+00BA, rich.
DesignDirAsServed == ZurichDir

DesignDir == "z[U+221A][U+00BA]rich"

Feature(props) == [type |-> "Feature", properties |-> props]

FeatureCollection(features) ==
  [type |-> "FeatureCollection", features |-> features]

\* JSON.stringify / JSON.parse of a JSON value; a missing file reads as ENOENT.
Stringify(v) == [json |-> v]

Parse(text) == text.json

NoFile == [enoent |-> TRUE]

\* The name table of the endpoint (mapFiles).
MapFiles ==
  [k \in {"initial_network", "one_superblock", "cycling_corridor",
          "all_superblocks", ZurichDir \o "/curbs",
          ZurichDir \o "/parking_spots",
          ZurichDir \o "/remaining_roadway_width"} |->
     CASE k = "initial_network" -> "Maps/initial_network.geojson"
       [] k = "one_superblock" -> "Maps/one_superblock.geojson"
       [] k = "cycling_corridor" -> "Maps/cycling_corridor.geojson"
       [] k = "all_superblocks" -> "Maps/all_superblocks.geojson"
       [] k = ZurichDir \o "/curbs" -> ZurichDir \o "/curbs.geojson"
       [] k = ZurichDir \o "/parking_spots" ->
            ZurichDir \o "/parking_spots.geojson"
       [] OTHER -> ZurichDir \o "/remaining_roadway_width.geojson"]

\* Properties every object literal inherits from Object.prototype.
ObjectPrototypeKeys ==
  {"constructor", "toString", "valueOf", "hasOwnProperty", "__proto__"}

\* table[key] on an object literal: an own key, else an inherited property
\* (a function or an object, which is truthy and no string), else undefined.
PropertyLookup(table, key) ==
  IF key \in DOMAIN table THEN [kind |-> "string", value |-> table[key]]
  ELSE IF key \in ObjectPrototypeKeys THEN [kind |-> "inherited", value |-> ""]
  ELSE [kind |-> "undefined", value |-> ""]

StaticFiles ==
  {MapFiles[k] : k \in DOMAIN MapFiles} \cup {"streets.geojson"}

DesignFiles ==
  {DesignDir \o "/parking_spots.geojson",
   DesignDir \o "/safety_margins.geojson",
   DesignDir \o "/remaining_roadway_width.geojson"}

\* The contents of the static files as shipped: one collection per file.
ShippedCollection(path) ==
  FeatureCollection(
    <<[type |-> "Feature",
       properties |-> [street_id |-> path, lane_type_code |-> "M"],
       geometry |->
         [type |-> "LineString",
          coordinates |->
            [kind |-> "array",
             items |-> <<[kind |-> "array",
                          items |-> <<[kind |-> "number", value |-> 21650],
                                      [kind |-> "number", value |-> 413900]>>],
                         [kind |-> "array",
                          items |-> <<[kind |-> "number", value |-> 21660],
                                      [kind |-> "number", value |-> 413910]>>]>>]]]>>)

ReadFile(fs, path) == IF path \in DOMAIN fs THEN fs[path] ELSE NoFile

\* searchParams.get(name) || fallback
ParamOr(param, fallback) == IF Falsy(param) THEN fallback ELSE param

GeoJsonType == "application/geo+json"

\* A catch block that answers Not Found.
ServerErrorAsNotFound(text) ==
  [status |-> 404, body |-> [error |-> text], contentType |-> "application/json",
   cacheControl |-> "default"]

ServerError(text) ==
  [status |-> 500, body |-> [error |-> text], contentType |-> "application/json",
   cacheControl |-> "default"]

\* The response of GET /network-data?type=...&map=...
NetworkDataResponse(fs, type, map) ==
  LET dataType == ParamOr(type, "lanes")
      mapName == ParamOr(map, ZurichDir \o "/curbs")
      found == PropertyLookup(MapFiles, mapName)
      filename ==
        IF dataType = "streets"
          THEN [kind |-> "string", value |-> "streets.geojson"]
        ELSE IF found.kind # "undefined" THEN found
        ELSE PropertyLookup(MapFiles, ZurichDir \o "/curbs")
  IN  IF filename.kind # "string"
        \* path.join throws on an argument that is no string
        THEN ServerError("Failed to load network data")
      ELSE IF ReadFile(fs, filename.value) = NoFile
        THEN ServerError("Failed to load network data")
      ELSE [status |-> 200, body |-> Parse(ReadFile(fs, filename.value)),
            contentType |-> GeoJsonType, cacheControl |-> NoStore]

(***************************************************************************)
(* Tool execution layer: src/src/app/api/chat/route.ts.                    *)
(***************************************************************************)

\* Lengths are in tenths of a metre (2.0 m is 20), coordinates in 1e-4
\* degrees (41.375 is 413750).
ParkingSpotWidthMin == 20

ParkingSpotWidthMax == 40

DooringMarginMin == 5

DooringMarginMax == 20

DefaultParkingSpotWidth == 20

DefaultDooringMargin == 15

\* A number prints as JavaScript prints it: 2.5, and 2 for 2.0.
Metres(tenths) ==
  ToString(tenths \div 10)
    \o (IF tenths % 10 = 0 THEN "" ELSE "." \o ToString(tenths % 10))

\* `if (x)` on an optional number: undefined and 0 are falsy.
TruthyNumber(o, f) == Has(o, f) /\ o[f] # 0

\* `if (s)` on an optional string: undefined and "" are falsy.
TruthyString(o, f) == Has(o, f) /\ o[f] # ""

NumberOr(o, f, fallback) == IF TruthyNumber(o, f) THEN o[f] ELSE fallback

\* A schema that states the minima only.
DesignParkingSchemaNoMax(input) ==
  /\ Has(input, "parking_spot_width") =>
       input.parking_spot_width >= ParkingSpotWidthMin
  /\ Has(input, "dooring_margin") =>
       input.dooring_margin >= DooringMarginMin

\* inputSchema of design_parking: both numbers optional, each in its range.
DesignParkingSchema(input) ==
  /\ Has(input, "parking_spot_width") =>
       /\ input.parking_spot_width >= ParkingSpotWidthMin
       /\ input.parking_spot_width <= ParkingSpotWidthMax
  /\ Has(input, "dooring_margin") =>
       /\ input.dooring_margin >= DooringMarginMin
       /\ input.dooring_margin <= DooringMarginMax

Rule(attribute, value) ==
  [ontology |-> "ParkingSpot", attribute |-> attribute,
   value_min |-> value, value_max |-> value]

DesignRules(input) ==
  (IF TruthyNumber(input, "parking_spot_width")
     THEN <<Rule("parking_spot_width", input.parking_spot_width)>> ELSE <<>>)
  \o (IF TruthyNumber(input, "dooring_margin")
        THEN <<Rule("dooring_margin", input.dooring_margin)>> ELSE <<>>)

DesignRequest(input) ==
  [method |-> "POST", url |-> "/design", body |-> [rules |-> DesignRules(input)]]

\* fill_opacity is in tenths (0.9 is 9).
ParkingSpotStyle ==
  [type |-> "parking", color |-> "#00F0FF", fill_opacity |-> 9,
   stroke_width |-> 2]

RoadwayWidthStyle == [color |-> "#FFA500", stroke_width |-> 4]

\* collection.features.map(f => ({...f, properties: {...f.properties, ...style}}))
Styled(collection, style) ==
  [collection EXCEPT !.features =
     [i \in DOMAIN collection.features |->
        [collection.features[i] EXCEPT
           !.properties = Spread(collection.features[i].properties, style)]]]

\* data.<name>?.features
HasFeatures(data, name) == Has(data, name) /\ Has(data[name], "features")

StyleCollection(data, name, style) ==
  IF HasFeatures(data, name)
    THEN [data EXCEPT ![name] = Styled(data[name], style)]
  ELSE data

\* The styling design_parking applies to the backend's answer (lines 576-599).
DesignStyled(data) ==
  StyleCollection(StyleCollection(data, "parking_spots", ParkingSpotStyle),
                  "remaining_roadway_widths", RoadwayWidthStyle)

WriteOf(data, name, file) ==
  IF Has(data, name)
    THEN <<[path |-> DesignDir \o "/" \o file, text |-> Stringify(data[name])]>>
  ELSE <<>>

\* The fs.writeFile calls of design_parking, in order (lines 610-630).
DesignWrites(data) ==
  WriteOf(data, "parking_spots", "parking_spots.geojson")
  \o WriteOf(data, "safety_margins", "safety_margins.geojson")
  \o WriteOf(data, "remaining_roadway_widths", "remaining_roadway_width.geojson")

RECURSIVE WriteAll(_, _)
WriteAll(fs, writes) ==
  IF writes = <<>> THEN fs
  ELSE WriteAll([fs EXCEPT ![Head(writes).path] = Head(writes).text],
                Tail(writes))

FeatureCount(data, name) ==
  IF HasFeatures(data, name) THEN Len(data[name].features) ELSE 0

DesignMapState ==
  [baseNetwork |-> DesignDir \o "/curbs",
   overlays |-> <<DesignDir \o "/parking_spots",
                  DesignDir \o "/remaining_roadway_width">>]

DesignSuccess(input, data) ==
  [status |-> "success", action |-> "design_parking",
   parking_spot_width |-> NumberOr(input, "parking_spot_width",
                                   DefaultParkingSpotWidth),
   dooring_margin |-> NumberOr(input, "dooring_margin", DefaultDooringMargin),
   features_updated |->
     [parking_spots |-> FeatureCount(data, "parking_spots"),
      remaining_widths |-> FeatureCount(data, "remaining_roadway_widths")],
   mapState |-> DesignMapState,
   message |->
     "Parking design updated: "
       \o ToString(FeatureCount(data, "parking_spots")) \o " spots with "
       \o Metres(NumberOr(input, "parking_spot_width", DefaultParkingSpotWidth))
       \o "m width and "
       \o Metres(NumberOr(input, "dooring_margin", DefaultDooringMargin))
       \o "m safety margin."]

\* The catch block of design_parking (lines 651-659).
DesignErrorCaught(cause) ==
  [status |-> "error", action |-> "design_parking",
   message |-> "Failed to connect to goNEON backend: " \o cause
                 \o ". Make sure the backend server is running on "
                 \o "http://localhost:8000"]

\* A catch block that reports the failure as a success.
DesignErrorSwallowed(cause) ==
  [status |-> "success", action |-> "design_parking",
   message |-> "Failed to connect to goNEON backend: " \o cause]

DesignError(cause) == DesignErrorCaught(cause)

\* design_parking.execute (lines 537-660). backend is the outcome of the
\* POST /design; fsFailAt is the file-system call that throws (1 is mkdir,
\* 2.. are the writes in order, 0 is none). The result: the tool's output, the
\* requests sent upstream, the files afterwards, whether an exception escaped.
DesignParkingExecute(input, backend, fsFailAt, fs) ==
  LET request == <<DesignRequest(input)>>
      data == DesignStyled(backend.data)
      writes == DesignWrites(data)
      fsFails == fsFailAt >= 1 /\ fsFailAt <= Len(writes) + 1
      done == IF fsFails
                THEN SubSeq(writes, 1, IF fsFailAt >= 2 THEN fsFailAt - 2 ELSE 0)
              ELSE writes
  IN  CASE backend.kind = "network_error" ->
             [output |-> DesignError("fetch failed"), upstream |-> request,
              files |-> fs, threw |-> FALSE]
        [] backend.kind = "status" ->
             [output |-> DesignError("Backend API returned " \o backend.status),
              upstream |-> request, files |-> fs, threw |-> FALSE]
        [] OTHER ->
             [output |-> IF fsFails THEN DesignError("EACCES: permission denied")
                         ELSE DesignSuccess(input, data),
              upstream |-> request, files |-> WriteAll(fs, done),
              threw |-> FALSE]

\* geocodeAddress (lines 7-35): null when the API key is missing, when the
\* answer is not OK or has no result, and when fetch or json() throws.
\* geo.kind is the outcome of the environment: "no_key", "ok" (with lat, lng,
\* formatted_address), "not_ok", "network_error".
GeocodeRequests(address, geo) ==
  IF geo.kind = "no_key" THEN <<>>
  ELSE <<[method |-> "GET", url |-> "/maps/api/geocode/json",
          body |-> [address |-> address]]>>

GeocodeAddress(address, geo) ==
  IF geo.kind = "ok"
    THEN [found |-> TRUE, lat |-> geo.lat, lng |-> geo.lng,
          formatted_address |-> geo.formatted_address]
  ELSE [found |-> FALSE, lat |-> 0, lng |-> 0, formatted_address |-> ""]

CoverageLatMin == 413750

CoverageLatMax == 414120

CoverageLngMin == 21420

CoverageLngMax == 21870

\* A bounding box that tests the latitude only.
InBoundsLatitudeOnly(lat, lng) == lat >= CoverageLatMin /\ lat <= CoverageLatMax

InBounds(lat, lng) ==
  /\ lat >= CoverageLatMin /\ lat <= CoverageLatMax
  /\ lng >= CoverageLngMin /\ lng <= CoverageLngMax

\* The predefined locations (lines 304-337).
Locations ==
  [barcelona_center |->
     [name |-> "Barcelona City Center", lat |-> 413851, lng |-> 21734,
      range |-> 500, heading |-> 0, tilt |-> 30],
   sagrada_familia |->
     [name |-> "Sagrada Familia", lat |-> 414036, lng |-> 21744,
      range |-> 600, heading |-> 45, tilt |-> 30],
   gothic_quarter |->
     [name |-> "Gothic Quarter", lat |-> 413825, lng |-> 21769,
      range |-> 400, heading |-> 315, tilt |-> 30],
   eixample |->
     [name |-> "Eixample District", lat |-> 413935, lng |-> 21644,
      range |-> 800, heading |-> 25, tilt |-> 30]]

Camera(lat, lng, range, heading, tilt) ==
  [lat |-> lat, lng |-> lng, range |-> range, heading |-> heading,
   tilt |-> tilt, roll |-> 0]

JumpSuccess(name, inCoverage, camera, message) ==
  [status |-> "success", action |-> "jump_to_location",
   location_name |-> name, in_coverage |-> inCoverage, camera |-> camera,
   message |-> message]

\* The geocoding-failed branch (lines 367-374).
JumpGeocodeFailedAnswer(address) ==
  [status |-> "error", action |-> "jump_to_location",
   message |-> "Could not geocode address \"" \o address
     \o "\". Please try a different address or use a predefined location."]

\* A geocoding-failed branch that falls back to the default view.
JumpGeocodeFailedToDefault(address) ==
  JumpSuccess("Eixample District", TRUE, Camera(413935, 21644, 800, 25, 30),
              "Returning to Eixample District center (default view).")

JumpGeocodeFailed(address) == JumpGeocodeFailedAnswer(address)

\* 41.3935 for 413935 (toFixed(4)).
Degrees(x) ==
  LET frac == x % 10000
  IN  ToString(x \div 10000) \o "."
        \o (IF frac < 10 THEN "000" ELSE IF frac < 100 THEN "00"
            ELSE IF frac < 1000 THEN "0" ELSE "")
        \o ToString(frac)

\* jump_to_location.execute (lines 302-437).
JumpToLocationExecute(input, geo) ==
  IF TruthyString(input, "address") THEN
    LET geocoded == GeocodeAddress(input.address, geo)
        inBounds == InBounds(geocoded.lat, geocoded.lng)
    IN  [output |->
           IF geocoded.found
             THEN JumpSuccess(geocoded.formatted_address, inBounds,
                    Camera(geocoded.lat, geocoded.lng, 400, 0, 30),
                    IF inBounds
                      THEN "Navigating to " \o geocoded.formatted_address \o "..."
                    ELSE "Jumping to " \o geocoded.formatted_address
                           \o " (outside network coverage - street overlay will not be visible)")
           ELSE JumpGeocodeFailed(input.address),
         upstream |-> GeocodeRequests(input.address, geo),
         threw |-> FALSE]
  ELSE IF TruthyNumber(input, "custom_lat") /\ TruthyNumber(input, "custom_lng") THEN
    LET inBounds == InBounds(input.custom_lat, input.custom_lng)
    IN  [output |->
           JumpSuccess("Custom Location", inBounds,
             Camera(input.custom_lat, input.custom_lng, 800, 0, 30),
             IF inBounds
               THEN "Jumping to custom coordinates: "
                      \o Degrees(input.custom_lat) \o ", " \o Degrees(input.custom_lng)
             ELSE "Jumping to " \o Degrees(input.custom_lat) \o ", "
                    \o Degrees(input.custom_lng)
                    \o " (outside network coverage - street overlay will not be visible)"),
         upstream |-> <<>>, threw |-> FALSE]
  ELSE IF TruthyString(input, "location") /\ input.location \in DOMAIN Locations THEN
    LET loc == Locations[input.location]
    IN  [output |->
           JumpSuccess(loc.name, TRUE,
             Camera(loc.lat, loc.lng, loc.range, loc.heading, loc.tilt),
             "Navigating to " \o loc.name \o "..."),
         upstream |-> <<>>, threw |-> FALSE]
  ELSE
    [output |->
       JumpSuccess("Eixample District", TRUE, Camera(413935, 21644, 800, 25, 30),
                   "Returning to Eixample District center (default view)."),
     upstream |-> <<>>, threw |-> FALSE]

\* inputSchema of jump_to_location: every field optional, location an enum.
JumpToLocationSchema(input) ==
  Has(input, "location") => input.location \in DOMAIN Locations

\* A reset that reports the lanes of the last transformation.
ResetNetworkKeepsLanes ==
  [status |-> "success", action |-> "reset", map |-> "initial_network",
   total_lanes |-> 3030 + 74 + 43,
   lane_types |-> [motor |-> 2940, bicycle |-> 74, green |-> 43],
   message |-> "Network reset to initial state."]

\* reset_network.execute (lines 236-248).
ResetNetworkExecute ==
  [status |-> "success", action |-> "reset", map |-> "initial_network",
   total_lanes |-> 3030,
   lane_types |-> [motor |-> 3030, bicycle |-> 0, green |-> 0],
   message |-> "Network reset to initial state."]

\* The canned results of transform_network (lines 261-272).
Transformations ==
  [cycling_corridor |->
     [map |-> "cycling_corridor",
      lane_types |-> [motor |-> 2940, bicycle |-> 74, green |-> 43],
      message |-> "Success! I've added a cycling corridor with 74 bicycle lanes and 43 green spaces. Ready to explore the changes?"],
   all_superblocks |->
     [map |-> "all_superblocks",
      lane_types |-> [motor |-> 2802, bicycle |-> 152, green |-> 183],
      message |-> "Done! Your network now has 152 bicycle lanes and 183 green spaces across the city. Ready to explore?"]]

TransformNetworkSchema(input) ==
  Has(input, "transformation_type")
    /\ input.transformation_type \in DOMAIN Transformations

\* A total that sums the three lane types of the result.
TransformNetworkSumsLaneTypes(input) ==
  LET result == Transformations[input.transformation_type]
  IN  Spread([status |-> "success", action |-> "transform",
              transformation_type |-> input.transformation_type,
              total_lanes |-> result.lane_types.motor + result.lane_types.bicycle
                                + result.lane_types.green],
             result)

\* transform_network.execute (lines 256-283).
TransformNetworkExecute(input) ==
  LET result == Transformations[input.transformation_type]
  IN  Spread([status |-> "success", action |-> "transform",
              transformation_type |-> input.transformation_type,
              total_lanes |-> 3030 + result.lane_types.bicycle
                                + result.lane_types.green],
             result)

\* The canned results of micro_transformation (lines 492-517).
MicroTransformations ==
  [add_ev_parking |->
     [mapState |-> [baseNetwork |-> "initial_network",
                    overlays |-> <<"onstreet_parking_EV">>],
      features_added |-> [ev_parking_zones |-> 20],
      message |-> "EV parking added: 20 zones."],
   add_charging_stations |->
     [mapState |-> [baseNetwork |-> "initial_network",
                    overlays |-> <<"charging_stations">>],
      features_added |-> [charging_stations |-> 12],
      message |-> "EV charging added: 12 stations."],
   full_ev_infrastructure |->
     [mapState |-> [baseNetwork |-> "initial_network",
                    overlays |-> <<"onstreet_parking_EV", "charging_stations">>],
      features_added |-> [ev_parking_zones |-> 20, charging_stations |-> 12],
      message |-> "EV infrastructure added: 20 parking zones, 12 charging stations."]]

MicroTransformationSchema(input) ==
  Has(input, "transformation_type")
    /\ input.transformation_type \in DOMAIN MicroTransformations

\* micro_transformation.execute (lines 487-527).
MicroTransformationExecute(input) ==
  Spread([status |-> "success", action |-> "micro_transformation",
          transformation_type |-> input.transformation_type],
         MicroTransformations[input.transformation_type])

\* suggest_beta_booking.execute (lines 668-675).
SuggestBetaBookingExecute(input) ==
  [status |-> "success", action |-> "suggest_beta_booking",
   redirect_url |-> "https://goneon.city/after_prompting",
   message |-> IF TruthyString(input, "message") THEN input.message
               ELSE "Great exploration! Ready to see what goNEON can do for your city? Book a beta demo call with our team."]

\* The map analyze_network reads when none is named (lines 455-469).
AnalyzeDefaultMap(analysisType) ==
  CASE analysisType = "parking" -> "onstreet_parking"
    [] analysisType = "ev_parking" -> "onstreet_parking_EV"
    [] analysisType = "charging_stations" -> "charging_stations"
    [] OTHER -> "initial_network"

(***************************************************************************)
(* analyzeNetwork (lines 38-220). JSON values of a geometry are tagged:    *)
(* a number, an array, or undefined.                                       *)
(***************************************************************************)

Num(n) == [kind |-> "number", value |-> n]

Arr(items) == [kind |-> "array", items |-> items]

Undefined == [kind |-> "undefined"]

\* x[i] in JavaScript (i from 0): an element of an array, undefined on a
\* number and beyond the end.
At(x, i) ==
  IF x.kind = "array" /\ (i + 1) \in DOMAIN x.items THEN x.items[i + 1]
  ELSE Undefined

\* coords && coords.length >= 2
HasTwoElements(x) == x.kind = "array" /\ Len(x.items) >= 2

\* The vertex the lanes and parking branches read (lines 67-69, 169-171).
CoordsOf(geometry) ==
  IF geometry.type = "Polygon" THEN At(At(geometry.coordinates, 0), 0)
  ELSE At(geometry.coordinates, 0)

\* The vertex the charging_stations branch reads (lines 109-113).
CoordsOfStation(geometry) ==
  IF geometry.type = "Point" THEN geometry.coordinates
  ELSE CoordsOf(geometry)

\* sampleCoords after one feature: a sample is pushed while fewer than limit
\* are held and the vertex read has two elements.
AddSample(samples, limit, coords) ==
  IF Len(samples) < limit /\ HasTwoElements(coords)
    THEN Append(samples, [lng |-> At(coords, 0), lat |-> At(coords, 1)])
  ELSE samples

PropertyOr(props, f, fallback) ==
  IF Has(props, f) THEN props[f] ELSE fallback

RECURSIVE ParkingFold(_, _)
\* The forEach of the parking branch (lines 57-79) from acc on.
ParkingFold(acc, features) ==
  IF features = <<>> THEN acc
  ELSE LET feature == Head(features)
       IN  ParkingFold(
             [spaces |-> acc.spaces + 1,
              capacity |-> acc.capacity
                             + (IF TruthyNumber(feature.properties, "capacity")
                                  THEN feature.properties.capacity ELSE 1),
              samples |-> AddSample(acc.samples, 10, CoordsOf(feature.geometry))],
             Tail(features))

AnalyzeParking(geoJson, mapName, analysisType) ==
  LET acc == ParkingFold([spaces |-> 0, capacity |-> 0, samples |-> <<>>],
                         geoJson.features)
  IN  [analysis_type |-> analysisType, map_name |-> mapName,
       total_spaces |-> acc.spaces, total_capacity |-> acc.capacity,
       sample_locations |-> acc.samples,
       message |->
         "Found " \o ToString(acc.spaces)
           \o (IF analysisType = "ev_parking" THEN " EV parking zones"
               ELSE " parking spaces")
           \o " with capacity for " \o ToString(acc.capacity) \o " vehicles"]

RECURSIVE StationFold(_, _)
\* The forEach of the charging_stations branch (lines 99-123).
StationFold(acc, features) ==
  IF features = <<>> THEN acc
  ELSE StationFold(
         [stations |-> acc.stations + 1,
          samples |-> AddSample(acc.samples, 10,
                                CoordsOfStation(Head(features).geometry))],
         Tail(features))

AnalyzeChargingStations(geoJson, mapName) ==
  LET acc == StationFold([stations |-> 0, samples |-> <<>>], geoJson.features)
  IN  [analysis_type |-> "charging_stations", map_name |-> mapName,
       total_stations |-> acc.stations, sample_locations |-> acc.samples,
       message |-> "Found " \o ToString(acc.stations) \o " EV charging stations"]

\* laneTypeNames (lines 135-141).
LaneTypeNames ==
  [M |-> "Motor", L |-> "Bicycle", G |-> "Green", T |-> "Transit",
   R |-> "Parking"]

LaneTypeName(code) ==
  IF code \in DOMAIN LaneTypeNames THEN LaneTypeNames[code] ELSE code

\* An absent property reads as undefined, which as an object key is the
\* string "undefined".
LaneTypeOf(feature) ==
  PropertyOr(feature.properties, "lane_type_code", "undefined")

\* Widths are in tenths of a metre; the default is 3.5 m.
WidthOf(feature) ==
  IF TruthyNumber(feature.properties, "width") THEN feature.properties.width
  ELSE 35

\* A filter that is ignored.
LaneFilterSkipsNothing(laneTypeFilter, laneType) == FALSE

\* laneTypeFilter && laneType !== laneTypeFilter (line 154).
LaneFilterSkips(laneTypeFilter, laneType) ==
  laneTypeFilter # "" /\ laneType # laneTypeFilter

RECURSIVE LanesFold(_, _, _)
\* The forEach of the lanes branch (lines 148-182): lanesByType and
\* sampleCoords by lane type.
LanesFold(acc, features, laneTypeFilter) ==
  IF features = <<>> THEN acc
  ELSE LET feature == Head(features)
           laneType == LaneTypeOf(feature)
           seen == laneType \in DOMAIN acc.lanes
           lanes == IF seen THEN acc.lanes[laneType] ELSE <<>>
           samples == IF seen THEN acc.samples[laneType] ELSE <<>>
           lane == [width |-> WidthOf(feature),
                    streetId |-> PropertyOr(feature.properties, "street_id",
                                            "undefined")]
       IN  IF LaneFilterSkips(laneTypeFilter, laneType)
             THEN LanesFold(acc, Tail(features), laneTypeFilter)
           ELSE LanesFold(
                  [lanes |-> [c \in DOMAIN acc.lanes \cup {laneType} |->
                                IF c = laneType THEN Append(lanes, lane)
                                ELSE acc.lanes[c]],
                   samples |-> [c \in DOMAIN acc.samples \cup {laneType} |->
                                  IF c = laneType
                                    THEN AddSample(samples, 5,
                                                   CoordsOf(feature.geometry))
                                  ELSE acc.samples[c]]],
                  Tail(features), laneTypeFilter)

RECURSIVE SumOfWidths(_)
SumOfWidths(lanes) ==
  IF lanes = <<>> THEN 0 ELSE Head(lanes).width + SumOfWidths(Tail(lanes))

RECURSIVE SumOfCounts(_, _)
SumOfCounts(lanes, codes) ==
  IF codes = {} THEN 0
  ELSE LET c == CHOOSE x \in codes : TRUE
       IN  Len(lanes[c]) + SumOfCounts(lanes, codes \ {c})

\* statistics[code] (lines 188-201); approx_length_km is in hundredths of a
\* kilometre, as toFixed(2) rounds it.
LaneStatistics(acc, code) ==
  [lane_type |-> LaneTypeName(code),
   count |-> Len(acc.lanes[code]),
   unique_streets |->
     Cardinality({acc.lanes[code][i].streetId : i \in DOMAIN acc.lanes[code]}),
   approx_length_km |-> (SumOfWidths(acc.lanes[code]) + 50) \div 100,
   sample_locations |-> acc.samples[code]]

AnalyzeLanes(geoJson, mapName, laneTypeFilter) ==
  LET acc == LanesFold([lanes |-> EmptyObject, samples |-> EmptyObject],
                       geoJson.features, laneTypeFilter)
      totalLanes == SumOfCounts(acc.lanes, DOMAIN acc.lanes)
  IN  [analysis_type |-> "lanes", map_name |-> mapName,
       total_lanes |-> totalLanes,
       lane_statistics |-> [c \in DOMAIN acc.lanes |-> LaneStatistics(acc, c)],
       message |->
         IF laneTypeFilter # ""
           THEN "Found "
                  \o ToString(IF laneTypeFilter \in DOMAIN acc.lanes
                                THEN Len(acc.lanes[laneTypeFilter]) ELSE 0)
                  \o " " \o LaneTypeName(laneTypeFilter) \o " lanes"
         ELSE "Analyzed " \o ToString(totalLanes) \o " total lanes across "
                \o ToString(Cardinality(DOMAIN acc.lanes)) \o " types"]

\* analyzeNetwork (lines 38-220): reads public/data/Maps/<mapName>.geojson
\* and writes nothing; an exception is caught and reported in an error field.
\* laneTypeFilter is "" when none is given.
AnalyzeNetwork(fs, mapName, analysisType, laneTypeFilter) ==
  LET text == ReadFile(fs, "Maps/" \o mapName \o ".geojson")
  IN  IF text = NoFile
        THEN [error |-> "Failed to analyze network",
              message |-> "Error: ENOENT: no such file or directory"]
      ELSE IF analysisType \in {"parking", "ev_parking"}
        THEN AnalyzeParking(Parse(text), mapName, analysisType)
      ELSE IF analysisType = "charging_stations"
        THEN AnalyzeChargingStations(Parse(text), mapName)
      ELSE AnalyzeLanes(Parse(text), mapName, laneTypeFilter)

\* analyze_network.execute (lines 449-479).
AnalyzeNetworkExecute(input, fs) ==
  LET analysisType ==
        IF TruthyString(input, "analysis_type") THEN input.analysis_type
        ELSE "lanes"
      mapName ==
        IF TruthyString(input, "map_name") THEN input.map_name
        ELSE AnalyzeDefaultMap(analysisType)
  IN  Spread([status |-> "success", action |-> "analyze_network"],
             AnalyzeNetwork(fs, mapName, analysisType,
                            PropertyOr(input, "lane_type_filter", "")))

(***************************************************************************)
(* Tool invocations and GET /network-data as steps.                        *)
(***************************************************************************)

\* The inputs the language model may pass to design_parking.
WidthInputs == {19, 20, 40, 41}

MarginInputs == {4, 5, 20, 21}

OptionalField(name, values) ==
  {EmptyObject} \cup {[k \in {name} |-> v] : v \in values}

DesignInputs ==
  {Spread(w, m) : w \in OptionalField("parking_spot_width", WidthInputs),
                  m \in OptionalField("dooring_margin", MarginInputs)}

\* Answers of the design backend: three collections, one of them with a
\* feature that already carries a color; and an answer without safety margins.
BackendData ==
  {[parking_spots |->
      FeatureCollection(<<Feature([spot |-> "p1"]), Feature([spot |-> "p2"])>>),
    safety_margins |-> FeatureCollection(<<Feature([margin |-> "s1"])>>),
    remaining_roadway_widths |->
      FeatureCollection(<<Feature([width |-> "r1", color |-> "#000000"])>>)],
   [parking_spots |-> FeatureCollection(<<Feature([spot |-> "p1"])>>),
    remaining_roadway_widths |->
      FeatureCollection(<<Feature([width |-> "r1"])>>)]}

BackendOutcomes ==
  {[kind |-> "ok", data |-> d, status |-> "200"] : d \in BackendData}
    \cup {[kind |-> "status", data |-> EmptyObject, status |-> "500"],
          [kind |-> "network_error", data |-> EmptyObject, status |-> ""]}

\* The outcomes of the POST /design and of the file system: a file-system
\* call can fail only once the backend has answered.
DesignEnvs ==
  {<<b, f>> \in BackendOutcomes \X {0, 1, 3} : b.kind = "ok" \/ f = 0}

JumpInputs ==
  {Spread(Spread(a, l), Spread(x, y)) :
     a \in OptionalField("address", {"", "Casa Batllo"}),
     l \in OptionalField("location", {"sagrada_familia", "atlantis"}),
     x \in OptionalField("custom_lat", {0, 413900}),
     y \in OptionalField("custom_lng", {0, 21600, 90000})}

GeocodeOutcomes ==
  {[kind |-> "no_key", lat |-> 0, lng |-> 0, formatted_address |-> ""],
   [kind |-> "not_ok", lat |-> 0, lng |-> 0, formatted_address |-> ""],
   [kind |-> "network_error", lat |-> 0, lng |-> 0, formatted_address |-> ""],
   [kind |-> "ok", lat |-> 413917, lng |-> 21650,
    formatted_address |-> "Casa Batllo, Barcelona"],
   [kind |-> "ok", lat |-> 473880, lng |-> 85480,
    formatted_address |-> "Casa Batllo, Zurich"]}

\* The geocoding service is consulted only when an address is given.
GeocodeOutcomesFor(input) ==
  IF TruthyString(input, "address") THEN GeocodeOutcomes
  ELSE {g \in GeocodeOutcomes : g.kind = "no_key"}

TransformInputs ==
  {[transformation_type |-> t] :
     t \in {"cycling_corridor", "all_superblocks", "one_superblock"}}

MicroInputs ==
  {[transformation_type |-> t] :
     t \in {"add_ev_parking", "add_charging_stations",
            "full_ev_infrastructure", "remove_parking"}}

AnalyzeInputs ==
  {Spread(t, m) :
     t \in OptionalField("analysis_type", {"lanes", "parking"}),
     m \in OptionalField("map_name", {"cycling_corridor", "no_such_map"})}

TypeParams == {NoParam, "lanes", "streets"}

MapParams ==
  {NoParam, "", "initial_network", "cycling_corridor", ZurichDir \o "/curbs",
   ZurichDir \o "/parking_spots", ZurichDir \o "/safety_margins",
   DesignDir \o "/parking_spots", "no_such_map", "constructor"}

NoCall == [kind |-> "none"]

StoreInit ==
  /\ files = [p \in StaticFiles \cup DesignFiles |->
                IF p \in StaticFiles THEN Stringify(ShippedCollection(p))
                ELSE NoFile]
  /\ lastCall = NoCall

\* What the AI SDK answers when the input does not match the inputSchema:
\* execute is not called.
InvalidInput == [type |-> "tool-error", errorText |-> "Invalid input for tool"]

ToolCall(tool, input, accepted, output, upstream, threw, outcome) ==
  [kind |-> "tool", tool |-> tool, input |-> input, accepted |-> accepted,
   output |-> output, upstream |-> upstream, threw |-> threw,
   outcome |-> outcome]

Rejected(tool, input) ==
  ToolCall(tool, input, FALSE, InvalidInput, <<>>, FALSE, "none")

InvokeDesignParking(input, backend, fsFailAt) ==
  /\ IF DesignParkingSchema(input)
       THEN LET r == DesignParkingExecute(input, backend, fsFailAt, files)
            IN  /\ files' = r.files
                /\ lastCall' = ToolCall("design_parking", input, TRUE, r.output,
                                        r.upstream, r.threw, backend.kind)
     ELSE /\ files' = files
          /\ lastCall' = Rejected("design_parking", input)
  /\ UNCHANGED notStoreVars

InvokeJumpToLocation(input, geo) ==
  /\ IF JumpToLocationSchema(input)
       THEN LET r == JumpToLocationExecute(input, geo)
            IN  lastCall' = ToolCall("jump_to_location", input, TRUE, r.output,
                                     r.upstream, r.threw,
                                     IF TruthyString(input, "address")
                                       THEN geo.kind ELSE "none")
     ELSE lastCall' = Rejected("jump_to_location", input)
  /\ UNCHANGED <<files, notStoreVars>>

InvokeResetNetwork ==
  /\ lastCall' = ToolCall("reset_network", EmptyObject, TRUE,
                          ResetNetworkExecute, <<>>, FALSE, "none")
  /\ UNCHANGED <<files, notStoreVars>>

InvokeTransformNetwork(input) ==
  /\ lastCall' =
       IF TransformNetworkSchema(input)
         THEN ToolCall("transform_network", input, TRUE,
                       TransformNetworkExecute(input), <<>>, FALSE, "none")
       ELSE Rejected("transform_network", input)
  /\ UNCHANGED <<files, notStoreVars>>

InvokeMicroTransformation(input) ==
  /\ lastCall' =
       IF MicroTransformationSchema(input)
         THEN ToolCall("micro_transformation", input, TRUE,
                       MicroTransformationExecute(input), <<>>, FALSE, "none")
       ELSE Rejected("micro_transformation", input)
  /\ UNCHANGED <<files, notStoreVars>>

InvokeAnalyzeNetwork(input) ==
  /\ lastCall' = ToolCall("analyze_network", input, TRUE,
                          AnalyzeNetworkExecute(input, files), <<>>, FALSE,
                          "none")
  /\ UNCHANGED <<files, notStoreVars>>

InvokeSuggestBetaBooking(input) ==
  /\ lastCall' = ToolCall("suggest_beta_booking", input, TRUE,
                          SuggestBetaBookingExecute(input), <<>>, FALSE, "none")
  /\ UNCHANGED <<files, notStoreVars>>

\* The store as one request sees it: every read fails while it is unreadable.
StoreAsRead(fs, readable) == IF readable THEN fs ELSE [p \in DOMAIN fs |-> NoFile]

\* GET /api/network-data?type=...&map=...; readable is whether fs.readFile
\* succeeds during this request.
NetworkDataGET(type, map, readable) ==
  /\ lastCall' = [kind |-> "GET", type |-> type, map |-> map,
                  readable |-> readable,
                  response |->
                    NetworkDataResponse(StoreAsRead(files, readable), type, map)]
  /\ UNCHANGED <<files, notStoreVars>>

StoreNext ==
  \/ \E i \in DesignInputs, e \in DesignEnvs :
       InvokeDesignParking(i, e[1], e[2])
  \/ \E i \in JumpInputs : \E g \in GeocodeOutcomesFor(i) :
       InvokeJumpToLocation(i, g)
  \/ InvokeResetNetwork
  \/ \E i \in TransformInputs : InvokeTransformNetwork(i)
  \/ \E i \in MicroInputs : InvokeMicroTransformation(i)
  \/ \E i \in AnalyzeInputs : InvokeAnalyzeNetwork(i)
  \/ \E i \in OptionalField("message", {"Book a call"}) :
       InvokeSuggestBetaBooking(i)
  \/ \E t \in TypeParams, m \in MapParams, readable \in BOOLEAN :
       NetworkDataGET(t, m, readable)

(***************************************************************************)
(* analyzeNetwork applied to the contents of one map file.                 *)
(***************************************************************************)

\* The features of the file analysed.
MaxFeatures == 11

Vertex(lng, lat) == Arr(<<Num(lng), Num(lat)>>)

\* The kinds of feature a map file holds, by geometry type: lanes as
\* LineString and MultiLineString, a parking zone as Polygon, a charging
\* station as Point.
FeatureKinds ==
  <<[type |-> "Feature",
     properties |-> [lane_type_code |-> "M", street_id |-> "s1"],
     geometry |-> [type |-> "LineString",
                   coordinates |-> Arr(<<Vertex(21650, 413900),
                                         Vertex(21660, 413910)>>)]],
    [type |-> "Feature",
     properties |-> [lane_type_code |-> "L", street_id |-> "s2", width |-> 25],
     geometry |-> [type |-> "LineString",
                   coordinates |-> Arr(<<Vertex(21700, 413950),
                                         Vertex(21710, 413960)>>)]],
    [type |-> "Feature",
     properties |-> [lane_type_code |-> "M", street_id |-> "s3"],
     geometry |-> [type |-> "MultiLineString",
                   coordinates |->
                     Arr(<<Arr(<<Vertex(21500, 413800), Vertex(21510, 413810)>>),
                           Arr(<<Vertex(21520, 413820),
                                 Vertex(21530, 413830)>>)>>)]],
    [type |-> "Feature",
     properties |-> [id |-> "p1", capacity |-> 2],
     geometry |-> [type |-> "Polygon",
                   coordinates |->
                     Arr(<<Arr(<<Vertex(21600, 413850), Vertex(21610, 413850),
                                 Vertex(21610, 413860),
                                 Vertex(21600, 413850)>>)>>)]],
    [type |-> "Feature",
     properties |-> [id |-> "c1", operator |-> "Endesa"],
     geometry |-> [type |-> "Point",
                   coordinates |-> Vertex(21750, 414000)]]>>

AnalysisTypes == {"lanes", "parking", "ev_parking", "charging_stations"}

\* lane_type_filter: none, or a code of the schema's enum.
LaneTypeFilters == {"", "L"}

NoAnalysis == [analysisType |-> "none"]

AnalyzeInit ==
  /\ mapFile = <<>>
  /\ lastAnalysis = NoAnalysis

\* The file analysed holds one more feature; features are listed by kind.
\* The file is static data: it is complete before it is analysed.
ExtendMapFile(k) ==
  /\ lastAnalysis = NoAnalysis
  /\ Len(mapFile) < MaxFeatures
  /\ mapFile # <<>> => \E j \in 1..k : mapFile[Len(mapFile)] = FeatureKinds[j]
  /\ mapFile' = Append(mapFile, FeatureKinds[k])
  /\ UNCHANGED <<lastAnalysis, notAnalyzeVars>>

\* analyzeNetwork('map', analysisType, laneTypeFilter) on the file.
AnalyzeMapFile(analysisType, laneTypeFilter) ==
  /\ lastAnalysis' =
       [analysisType |-> analysisType, laneTypeFilter |-> laneTypeFilter,
        features |-> mapFile,
        result |->
          AnalyzeNetwork(
            [p \in {"Maps/map.geojson"} |-> Stringify(FeatureCollection(mapFile))],
            "map", analysisType, laneTypeFilter)]
  /\ UNCHANGED <<mapFile, notAnalyzeVars>>

AnalyzeNext ==
  \/ \E k \in DOMAIN FeatureKinds : ExtendMapFile(k)
  \/ \E analysisType \in AnalysisTypes, laneTypeFilter \in LaneTypeFilters :
       AnalyzeMapFile(analysisType, laneTypeFilter)

(***************************************************************************)
(* NetworkOverlay: the layers that draw features on the 3D map.            *)
(***************************************************************************)

\* The .then callbacks that can be waiting at once.
MaxPending == 2

\* The base network and one overlay layer (polyline-3d.tsx renders one
\* NetworkOverlay for the base network and one per overlay layer).
Layers == {"base", "overlay"}

\* The two revisions of the component in the repository.
OverlaySources == {"network-overlay.tsx", "part_004"}

LANE_COLORS ==
  [M |-> "#4B5563", T |-> "#EF4444", L |-> "#8B1F2E", G |-> "#1E5631",
   R |-> "#00F0FF"]

OBJECT_TYPE_COLORS(source) ==
  IF source = "part_004"
    THEN [parking_spot |-> "#00FFFF", curb |-> "#FFFFFF", roadway |-> "#FFA500",
          remaining_width |-> "#FF8C00"]
  ELSE [parking_spot |-> "#00F0FF", curb |-> "#FFFFFF", roadway |-> "#FFA500"]

DefaultGray == "#6B7280"

\* lane.properties.x && TABLE[lane.properties.x], as a set: the colour when
\* the property is set and the table has it, nothing otherwise.
TableColor(table, props, f) ==
  IF TruthyString(props, f) /\ props[f] \in DOMAIN table THEN {table[props[f]]}
  ELSE {}

\* color || object-type colour || lane-type colour || '#6B7280'.
StandardColor(source, props) ==
  LET byObjectType == TableColor(OBJECT_TYPE_COLORS(source), props, "object_type")
      byLaneType == TableColor(LANE_COLORS, props, "lane_type_code")
  IN  IF TruthyString(props, "color") THEN props.color
      ELSE IF byObjectType # {} THEN CHOOSE c \in byObjectType : TRUE
      ELSE IF byLaneType # {} THEN CHOOSE c \in byLaneType : TRUE
      ELSE DefaultGray

IsParkingSpot(props) ==
  Has(props, "object_type") /\ props.object_type = "parking_spot"

\* const color of one lane.
Color(source, lane) ==
  IF source = "part_004" /\ lane.geometry.type = "Polygon"
       /\ IsParkingSpot(lane.properties)
    THEN "#00FFFF"
  ELSE IF source = "part_004" /\ lane.geometry.type = "LineString"
            /\ IsParkingSpot(lane.properties)
    THEN "#FF8C00"
  ELSE StandardColor(source, lane.properties)

\* `network-lane-${street_id || type || index}-${index}`
ElementId(lane, index) ==
  "network-lane-"
    \o (IF TruthyString(lane.properties, "street_id")
          THEN lane.properties.street_id
        ELSE IF TruthyString(lane.properties, "type") THEN lane.properties.type
        ELSE ToString(index))
    \o "-" \o ToString(index)

\* The stroke-color attribute of a polygon.
PolygonStrokeColor(source, lane, color) ==
  IF source = "part_004"
       /\ (IsParkingSpot(lane.properties)
           \/ (Has(lane.properties, "type") /\ lane.properties.type = "parking"))
    THEN "#FFFF00"
  ELSE IF TruthyString(lane.properties, "stroke_color")
    THEN lane.properties.stroke_color
  ELSE color

Element(layer, tag, id, strokeColor, color, lane) ==
  [layer |-> layer, tag |-> tag, id |-> id, strokeColor |-> strokeColor,
   color |-> color, lane |-> lane]

\* The elements one lane is drawn as: a circle for a Point, a polygon, one
\* polyline per line of a MultiLineString, else one polyline.
ElementsOf(source, layer, lane, index) ==
  LET color == Color(source, lane)
      id == ElementId(lane, index)
      type == lane.geometry.type
  IN  IF type = "Point"
        THEN <<Element(layer, "gmp-polygon-3d", id, color, color, lane)>>
      ELSE IF type = "Polygon"
        THEN <<Element(layer, "gmp-polygon-3d", id,
                       PolygonStrokeColor(source, lane, color), color, lane)>>
      ELSE IF type = "MultiLineString"
        THEN [lineIndex \in 1..Len(lane.geometry.coordinates) |->
                Element(layer, "gmp-polyline-3d",
                        id \o "-line-" \o ToString(lineIndex - 1),
                        color, color, lane)]
      ELSE <<Element(layer, "gmp-polyline-3d", id, color, color, lane)>>

\* parent.removeChild(child) for the first of the children numbered in hits,
\* if any.
RemoveFirst(children, hits) ==
  IF hits = {} THEN children
  ELSE LET i == CHOOSE i \in hits : \A j \in hits : i <= j
       IN  SubSeq(children, 1, i - 1) \o SubSeq(children, i + 1, Len(children))

\* document.getElementById(id) and the removal of what it finds.
RemoveExisting(children, id) ==
  RemoveFirst(children, {i \in DOMAIN children : children[i].id = id})

RECURSIVE DrawLanes(_, _, _, _, _)
\* lanes.forEach of the draw pass from lane number index on; dom holds the
\* children of the map and polylinesRef.current.
DrawLanes(source, layer, dom, lanes, index) ==
  IF index >= Len(lanes) THEN dom
  ELSE LET created == ElementsOf(source, layer, lanes[index + 1], index)
           id == ElementId(lanes[index + 1], index)
       IN  DrawLanes(source, layer,
                     [children |-> RemoveExisting(dom.children, id) \o created,
                      ref |-> dom.ref \o created],
                     lanes, index + 1)

RECURSIVE RemoveAll(_, _)
\* polylinesRef.current.forEach(element => element.parentNode?.removeChild).
RemoveAll(children, ref) ==
  IF ref = <<>> THEN children
  ELSE RemoveAll(
         RemoveFirst(children,
                     {i \in DOMAIN children : children[i] = Head(ref)}),
         Tail(ref))

Bicycle ==
  [properties |-> [street_id |-> "s1", lane_type_code |-> "L"],
   geometry |-> [type |-> "LineString", coordinates |-> <<"a", "b">>]]

SafetyMargin ==
  [properties |-> [object_type |-> "safety_margin"],
   geometry |-> [type |-> "Point", coordinates |-> <<"lng", "lat">>]]

MotorLanes ==
  [properties |-> [street_id |-> "s2", lane_type_code |-> "M"],
   geometry |-> [type |-> "MultiLineString",
                 coordinates |-> <<<<"a", "b">>, <<"c", "d">>>>]]

ParkingSpot ==
  [properties |-> [object_type |-> "parking_spot", color |-> "#00FF00"],
   geometry |-> [type |-> "Polygon", coordinates |-> <<<<"a", "b", "c", "a">>>>]]

ParkingMarker ==
  [properties |-> [lane_type_code |-> "R"],
   geometry |-> [type |-> "Point", coordinates |-> <<"lng", "lat">>]]

Unclassified ==
  [properties |-> [width |-> 35],
   geometry |-> [type |-> "LineString", coordinates |-> <<"a", "b">>]]

\* The feature lists a layer is given.
FeatureLists ==
  {<<>>,
   <<Bicycle, SafetyMargin, MotorLanes>>,
   <<ParkingSpot, ParkingMarker, Unclassified>>}

Unmounted ==
  [mounted |-> FALSE, lanes |-> <<>>, visible |-> TRUE, library |-> FALSE,
   cleanup |-> FALSE, ref |-> <<>>]

OverlayInit ==
  /\ overlaySource = "none"
  /\ maps3dLibrary = FALSE
  /\ map3d = [present |-> FALSE, children |-> <<>>]
  /\ overlays = [l \in Layers |-> Unmounted]
  /\ promises = <<>>
  /\ drawn = [l \in Layers |-> <<>>]

\* mounted = false in the closure of the effects of layer l that wait.
Cancel(queue, l) ==
  [i \in DOMAIN queue |->
     IF queue[i].layer = l THEN [queue[i] EXCEPT !.mounted = FALSE]
     ELSE queue[i]]

\* The effect of layer l runs for props (lanes, visible) and the library the
\* hook returned, after the cleanup that the effect before it returned, if it
\* returned one.
RunEffect(l, mounted, lanes, visible, library) ==
  LET old == overlays[l]
      starts == mounted /\ library /\ lanes # <<>> /\ visible
      cleaned == IF old.cleanup THEN Cancel(promises, l) ELSE promises
  IN  /\ starts => Len(promises) < MaxPending
      /\ map3d' =
           IF old.cleanup
             THEN [map3d EXCEPT !.children = RemoveAll(@, old.ref)]
           ELSE map3d
      /\ promises' =
           IF starts
             THEN Append(cleaned, [layer |-> l, lanes |-> lanes, mounted |-> TRUE])
           ELSE cleaned
      /\ overlays' =
           [overlays EXCEPT ![l] =
              IF mounted
                THEN [mounted |-> TRUE, lanes |-> lanes, visible |-> visible,
                      library |-> library, cleanup |-> starts,
                      ref |-> IF old.cleanup THEN <<>> ELSE old.ref]
              ELSE [Unmounted EXCEPT
                      !.ref = IF old.cleanup THEN <<>> ELSE old.ref]]
      /\ drawn' = [drawn EXCEPT ![l] = <<>>]

\* <NetworkOverlay lanes={lanes} visible={visible} /> is mounted.
MountOverlay(source, l, lanes, visible) ==
  /\ overlaySource \in {"none", source}
  /\ ~overlays[l].mounted
  /\ overlaySource' = source
  /\ RunEffect(l, TRUE, lanes, visible, maps3dLibrary)
  /\ UNCHANGED <<maps3dLibrary, notOverlayVars>>

\* The layer is rendered with another feature list.
SetLanes(l, lanes) ==
  /\ overlays[l].mounted
  /\ RunEffect(l, TRUE, lanes, overlays[l].visible, overlays[l].library)
  /\ UNCHANGED <<overlaySource, maps3dLibrary, notOverlayVars>>

\* The Show/Hide Network button.
ToggleVisible(l) ==
  /\ overlays[l].mounted
  /\ RunEffect(l, TRUE, overlays[l].lanes, ~overlays[l].visible,
               overlays[l].library)
  /\ UNCHANGED <<overlaySource, maps3dLibrary, notOverlayVars>>

UnmountOverlay(l) ==
  /\ overlays[l].mounted
  /\ RunEffect(l, FALSE, <<>>, TRUE, FALSE)
  /\ UNCHANGED <<overlaySource, maps3dLibrary, notOverlayVars>>

\* The maps3d library has loaded.
LibraryLoaded ==
  /\ ~maps3dLibrary
  /\ maps3dLibrary' = TRUE
  /\ UNCHANGED <<overlaySource, map3d, overlays, promises, drawn,
                 notOverlayVars>>

\* useMapsLibrary('maps3d') returns the loaded library to layer l, which
\* renders again: the library is a dependency of the effect.
UseMapsLibrary(l) ==
  /\ maps3dLibrary
  /\ overlays[l].mounted /\ ~overlays[l].library
  /\ RunEffect(l, TRUE, overlays[l].lanes, overlays[l].visible, TRUE)
  /\ UNCHANGED <<overlaySource, maps3dLibrary, notOverlayVars>>

\* Map3D has rendered the gmp-map-3d element.
Map3DRendered ==
  /\ ~map3d.present
  /\ map3d' = [map3d EXCEPT !.present = TRUE]
  /\ UNCHANGED <<overlaySource, maps3dLibrary, overlays, promises, drawn,
                 notOverlayVars>>

\* The oldest .then callback runs: the draw pass, unless its effect was
\* cleaned up or the document has no gmp-map-3d.
DrawPass ==
  /\ promises # <<>>
  /\ LET p == Head(promises)
         dom == DrawLanes(overlaySource, p.layer,
                          [children |-> map3d.children,
                           ref |-> overlays[p.layer].ref],
                          p.lanes, 0)
     IN  /\ promises' = Tail(promises)
         /\ IF p.mounted /\ map3d.present
              THEN /\ map3d' = [map3d EXCEPT !.children = dom.children]
                   /\ overlays' = [overlays EXCEPT ![p.layer].ref = dom.ref]
                   /\ drawn' =
                        [drawn EXCEPT ![p.layer] =
                           SubSeq(dom.ref, Len(overlays[p.layer].ref) + 1,
                                  Len(dom.ref))]
            ELSE UNCHANGED <<map3d, overlays, drawn>>
  /\ UNCHANGED <<overlaySource, maps3dLibrary, notOverlayVars>>

OverlayNext ==
  \/ \E source \in OverlaySources, l \in Layers, lanes \in FeatureLists,
        visible \in BOOLEAN : MountOverlay(source, l, lanes, visible)
  \/ \E l \in Layers, lanes \in FeatureLists : SetLanes(l, lanes)
  \/ \E l \in Layers : ToggleVisible(l)
  \/ \E l \in Layers : UnmountOverlay(l)
  \/ LibraryLoaded
  \/ \E l \in Layers : UseMapsLibrary(l)
  \/ Map3DRendered
  \/ DrawPass

(***************************************************************************)
(* Chat UI and map-state synchronizer:                                     *)
(* src/src/components/chat/chat-interface.tsx and src/src/app/page.tsx.    *)
(***************************************************************************)

\* The user prompts of one conversation.
MaxPrompts == 2

\* The tool invocations of one conversation.
MaxToolCalls == 2

DefaultPromptLimit == 5

BookingUrl == "https://goneon.city/after_prompting"

NoHref == ""

NoOutput == [undefined |-> TRUE]

StartsWith(s, prefix) ==
  Len(s) >= Len(prefix) /\ SubSeq(s, 1, Len(prefix)) = prefix

TextPart == [type |-> "text", toolCallId |-> "", state |-> "done",
             output |-> NoOutput]

\* The message the mount effect installs (lines 131-144).
WelcomeMessage == [id |-> "1", role |-> "assistant", parts |-> <<TextPart>>]

\* page.tsx lines 15-19; Date.now() at the first render is time 0.
InitialMapState ==
  [baseNetwork |-> ZurichDir \o "/curbs",
   overlays |-> <<ZurichDir \o "/parking_spots", ZurichDir \o "/safety_margins",
                  ZurichDir \o "/remaining_roadway_width">>,
   timestamp |-> 0]

\* The tool part types the stream carries, and per type the outputs the
\* tool layer returns for it; one output arrives as a JSON string.
ToolPartTypes ==
  {"tool-design_parking", "tool-transform_network", "tool-micro_transformation",
   "tool-jump_to_location", "tool-suggest_beta_booking"}

ToolOutputs(type) ==
  CASE type = "tool-design_parking" ->
         {DesignSuccess(EmptyObject, EmptyObject), DesignError("fetch failed")}
    [] type = "tool-transform_network" ->
         {Stringify(TransformNetworkExecute(
                      [transformation_type |-> "cycling_corridor"]))}
    [] type = "tool-micro_transformation" ->
         {MicroTransformationExecute(
            [transformation_type |-> "full_ev_infrastructure"])}
    [] type = "tool-jump_to_location" ->
         {JumpToLocationExecute([location |-> "sagrada_familia"],
                                [kind |-> "no_key"]).output}
    [] OTHER -> {SuggestBetaBookingExecute(EmptyObject)}

\* typeof output === 'string'
IsJsonString(output) == DOMAIN output = {"json"}

\* handleMapChange (page.tsx lines 38-51): the Map State it sets.
HandleMapChange(mapName, isString) ==
  IF isString THEN [baseNetwork |-> mapName, overlays |-> <<>>]
  ELSE mapName

\* `${message.id}-${toolPart.type}` (line 195).
ToolOutputId(message, toolPart) == message.id \o "-" \o toolPart.type

\* A marking that forgets the id.
MarkProcessedForgets(processed, toolOutputId) == processed

\* processedToolOutputs.current.add(toolOutputId) (line 204).
MarkProcessed(processed, toolOutputId) == processed \cup {toolOutputId}

\* allParts?.filter((part) => part.type?.startsWith('tool-')) (lines 188-190).
ToolParts(message) ==
  SelectSeq(message.parts, LAMBDA part : StartsWith(part.type, "tool-"))

\* The body of toolParts.forEach (lines 193-229). st holds the seen-set, the
\* record of what was applied, the page's Map State and location.href.
ProcessToolPart(st, message, toolPart) ==
  LET toolOutputId == ToolOutputId(message, toolPart)
      output == IF IsJsonString(toolPart.output) THEN Parse(toolPart.output)
                ELSE toolPart.output
      newFormat == Has(output, "mapState")
      legacy == ~newFormat /\ TruthyString(output, "map")
      camera == Has(output, "action") /\ output.action = "jump_to_location"
                  /\ Has(output, "camera")
      redirect == TruthyString(output, "redirect_url")
      newMapState ==
        IF newFormat THEN HandleMapChange(output.mapState, FALSE)
        ELSE IF legacy THEN HandleMapChange(output.map, TRUE)
        ELSE st.mapState
  IN  IF /\ toolPart.state = "output-available"
         /\ toolPart.output # NoOutput
         /\ toolOutputId \notin st.processed
        THEN [processed |-> MarkProcessed(st.processed, toolOutputId),
              applied |->
                Append(st.applied,
                       [id |-> toolOutputId, toolCallId |-> toolPart.toolCallId,
                        type |-> toolPart.type,
                        map |-> IF newFormat \/ legacy THEN <<newMapState>>
                                ELSE <<>>,
                        camera |-> IF camera THEN <<output.camera>> ELSE <<>>,
                        redirect |-> redirect]),
              mapState |-> newMapState,
              href |-> IF redirect THEN output.redirect_url ELSE st.href]
      ELSE st

RECURSIVE ProcessToolParts(_, _, _)
ProcessToolParts(st, message, toolParts) ==
  IF toolParts = <<>> THEN st
  ELSE ProcessToolParts(ProcessToolPart(st, message, Head(toolParts)), message,
                        Tail(toolParts))

\* messages.forEach (lines 186-231).
RECURSIVE ProcessMessages(_, _)
ProcessMessages(st, msgs) ==
  IF msgs = <<>> THEN st
  ELSE ProcessMessages(ProcessToolParts(st, Head(msgs), ToolParts(Head(msgs))),
                       Tail(msgs))

UserMessages(msgs) == SelectSeq(msgs, LAMBDA m : m.role = "user")

RECURSIVE AllToolParts(_)
AllToolParts(msgs) ==
  IF msgs = <<>> THEN <<>> ELSE ToolParts(Head(msgs)) \o AllToolParts(Tail(msgs))

PageLoaded == locationHref = NoHref

Mounted == messages # <<>>

SyncInit ==
  /\ messages = <<>>
  /\ chatStatus = "ready"
  /\ promptCount = 0
  /\ promptLimit = DefaultPromptLimit
  /\ betaBookingEnabled = TRUE
  /\ processedToolOutputs = {}
  /\ effectPending = FALSE
  /\ applied = <<>>
  /\ mapState = InitialMapState
  /\ locationHref = NoHref

\* The mount effects (lines 80-97 and 129-146): read beta and limit from the
\* URL, install the welcome message. limit is parseInt of the parameter, 0
\* when it is absent or no number.
Mount(betaParam, limit) ==
  /\ messages = <<>>
  /\ messages' = <<WelcomeMessage>>
  /\ betaBookingEnabled' = (betaParam # "off")
  /\ promptLimit' = IF limit > 0 THEN limit ELSE promptLimit
  /\ effectPending' = TRUE
  /\ UNCHANGED <<chatStatus, promptCount, processedToolOutputs, applied,
                 mapState, locationHref, notSyncVars>>

\* String.prototype.trim on the texts of SubmitTexts: leading and trailing
\* spaces are dropped.
RECURSIVE Trim(_)
Trim(s) ==
  IF s = "" THEN ""
  ELSE IF SubSeq(s, 1, 1) = " " THEN Trim(SubSeq(s, 2, Len(s)))
  ELSE IF SubSeq(s, Len(s), Len(s)) = " " THEN Trim(SubSeq(s, 1, Len(s) - 1))
  ELSE s

\* hasText (line 150): Boolean(message.text?.trim()).
HasText(text) == Trim(text) # ""

IsLoadingStreamingOnly(status) == status = "streaming"

\* isLoading (line 151).
IsLoading(status) == status \in {"streaming", "submitted"}

LimitReachedPastTheLimit(enabled, count, limit) == enabled /\ count > limit

\* The prompt-limit test of handleSubmit (line 155) and of the countdown
\* effect (line 100).
LimitReached(enabled, count, limit) == enabled /\ count >= limit

\* The texts a submit event carries: empty, blank, a prompt.
SubmitTexts == {"", "  ", " to the cycling corridor "}

\* handleSubmit (lines 148-176): a submit without text, during a request or
\* at the prompt limit returns early; otherwise sendMessage appends the user
\* message and sets the status to submitted.
HandleSubmit(text) ==
  /\ Mounted /\ PageLoaded
  /\ Len(UserMessages(messages)) < MaxPrompts
  /\ HasText(text) /\ ~IsLoading(chatStatus)
  /\ ~LimitReached(betaBookingEnabled, promptCount, promptLimit)
  /\ messages' =
       Append(messages,
              [id |-> "u" \o ToString(Len(UserMessages(messages)) + 1),
               role |-> "user", parts |-> <<TextPart>>])
  /\ chatStatus' = "submitted"
  /\ promptCount' = IF betaBookingEnabled THEN promptCount + 1 ELSE promptCount
  /\ effectPending' = TRUE
  /\ UNCHANGED <<promptLimit, betaBookingEnabled, processedToolOutputs, applied,
                 mapState, locationHref, notSyncVars>>

\* The countdown started at the prompt limit has run out (lines 99-120).
CountdownRedirect ==
  /\ Mounted /\ PageLoaded
  /\ LimitReached(betaBookingEnabled, promptCount, promptLimit)
  /\ locationHref' = BookingUrl
  /\ UNCHANGED <<messages, chatStatus, promptCount, promptLimit,
                 betaBookingEnabled, processedToolOutputs, effectPending,
                 applied, mapState, notSyncVars>>

StreamUnchanged ==
  UNCHANGED <<promptCount, promptLimit, betaBookingEnabled,
              processedToolOutputs, applied, mapState, locationHref,
              notSyncVars>>

\* The response stream of POST /api/chat as useChat folds it into messages:
\* one assistant message per prompt, holding the tool parts of all its steps.
StreamStart ==
  /\ PageLoaded /\ chatStatus = "submitted"
  /\ messages' =
       Append(messages,
              [id |-> "a" \o ToString(Len(UserMessages(messages))),
               role |-> "assistant", parts |-> <<>>])
  /\ chatStatus' = "streaming"
  /\ effectPending' = TRUE
  /\ StreamUnchanged

LastMessage == messages[Len(messages)]

WithLastParts(parts) == [messages EXCEPT ![Len(messages)].parts = parts]

\* A tool call of the model: the part arrives with its input.
StreamToolInput(type) ==
  /\ PageLoaded /\ chatStatus = "streaming"
  /\ Len(AllToolParts(messages)) < MaxToolCalls
  /\ messages' =
       WithLastParts(
         Append(LastMessage.parts,
                [type |-> type,
                 toolCallId |->
                   "call" \o ToString(Len(AllToolParts(messages)) + 1),
                 state |-> "input-available", output |-> NoOutput]))
  /\ effectPending' = TRUE
  /\ UNCHANGED chatStatus
  /\ StreamUnchanged

\* The result of a tool call arrives; calls of one step finish in any order.
StreamToolOutput(i, output) ==
  /\ PageLoaded /\ chatStatus = "streaming"
  /\ i \in DOMAIN LastMessage.parts
  /\ LastMessage.parts[i].state = "input-available"
  /\ output \in ToolOutputs(LastMessage.parts[i].type)
  /\ messages' =
       WithLastParts([LastMessage.parts EXCEPT
                        ![i].state = "output-available", ![i].output = output])
  /\ effectPending' = TRUE
  /\ UNCHANGED chatStatus
  /\ StreamUnchanged

\* A tool call fails in the SDK (invalid input, exception).
StreamToolError(i) ==
  /\ PageLoaded /\ chatStatus = "streaming"
  /\ i \in DOMAIN LastMessage.parts
  /\ LastMessage.parts[i].state = "input-available"
  /\ messages' = WithLastParts([LastMessage.parts EXCEPT
                                  ![i].state = "output-error"])
  /\ effectPending' = TRUE
  /\ UNCHANGED chatStatus
  /\ StreamUnchanged

StreamFinish ==
  /\ PageLoaded /\ chatStatus = "streaming"
  /\ \A i \in DOMAIN LastMessage.parts :
       LastMessage.parts[i].state # "input-available"
  /\ chatStatus' = "ready"
  /\ effectPending' = TRUE
  /\ UNCHANGED messages
  /\ StreamUnchanged

\* A render with the same messages (typing into the input, a parent render):
\* the handlers of page.tsx are new functions on every render, so the
\* effect's dependencies have changed and it runs again.
Rerender ==
  /\ Mounted /\ PageLoaded
  /\ ~effectPending
  /\ effectPending' = TRUE
  /\ UNCHANGED <<messages, chatStatus, promptCount, promptLimit,
                 betaBookingEnabled, processedToolOutputs, applied, mapState,
                 locationHref, notSyncVars>>

\* The tool-output effect (lines 185-232) over the committed message list.
ToolOutputEffect ==
  /\ PageLoaded /\ effectPending
  /\ LET st == ProcessMessages([processed |-> processedToolOutputs,
                                applied |-> applied, mapState |-> mapState,
                                href |-> locationHref], messages)
     IN  /\ processedToolOutputs' = st.processed
         /\ applied' = st.applied
         /\ mapState' = st.mapState
         /\ locationHref' = st.href
  /\ effectPending' = FALSE
  /\ UNCHANGED <<messages, chatStatus, promptCount, promptLimit,
                 betaBookingEnabled, notSyncVars>>

AllToolOutputs == UNION {ToolOutputs(type) : type \in ToolPartTypes}

SyncNext ==
  \/ \E betaParam \in {NoParam, "off"}, limit \in {0, 1} :
       Mount(betaParam, limit)
  \/ \E text \in SubmitTexts : HandleSubmit(text)
  \/ CountdownRedirect
  \/ StreamStart
  \/ \E type \in ToolPartTypes : StreamToolInput(type)
  \/ \E i \in 1..MaxToolCalls, output \in AllToolOutputs :
       StreamToolOutput(i, output)
  \/ \E i \in 1..MaxToolCalls : StreamToolError(i)
  \/ StreamFinish
  \/ Rerender
  \/ ToolOutputEffect

(***************************************************************************)
(* GoogleMap3D (src/src/components/maps/polyline-3d.tsx): the data fetched *)
(* and shown for the page's Map State.                                     *)
(***************************************************************************)

\* The tool results applied in one conversation.
MaxApplied == 3

\* The tool results that carry a Map State, as the stream delivers them.
MapToolResults ==
  {[type |-> "tool-reset_network", output |-> ResetNetworkExecute],
   [type |-> "tool-transform_network",
    output |-> TransformNetworkExecute(
                 [transformation_type |-> "cycling_corridor"])],
   [type |-> "tool-micro_transformation",
    output |-> MicroTransformationExecute(
                 [transformation_type |-> "full_ev_infrastructure"])],
   [type |-> "tool-design_parking",
    output |-> DesignSuccess(EmptyObject, EmptyObject)]}

\* The dependency list of the fetch effect (line 211):
\* [mapState.baseNetwork, JSON.stringify(mapState.overlays), mapState.timestamp]
\* with an absent timestamp as the empty tuple.
FetchDeps(ms) ==
  <<ms.baseNetwork, ms.overlays,
    IF Has(ms, "timestamp") THEN <<ms.timestamp>> ELSE <<>>>>

\* The fetches the effect starts for Map State ms: one for the base network
\* and, if there are overlays, one Promise.all over the overlays.
StartedFetches(ms) ==
  <<[part |-> "base", mapState |-> ms]>>
    \o (IF Len(ms.overlays) > 0 THEN <<[part |-> "overlays", mapState |-> ms]>>
        ELSE <<>>)

\* s.includes(sub)
Includes(s, sub) ==
  \E i \in 1..(Len(s) - Len(sub) + 1) : SubSeq(s, i, i + Len(sub) - 1) = sub

\* { ...feature, properties: { ...properties, color: color || fallback } },
\* fallback "" standing for undefined.
WithColor(feature, fallback) ==
  IF TruthyString(feature.properties, "color") \/ fallback = "" THEN feature
  ELSE [feature EXCEPT
          !.properties = Spread(feature.properties, [color |-> fallback])]

\* featuresWithColor of the base network (lines 164-171).
FeaturesWithColor(features, baseNetwork) ==
  [i \in DOMAIN features |->
     WithColor(features[i],
               IF Includes(baseNetwork, "curbs") THEN "#DDDDDD" ELSE "")]

\* data.features of a response of the endpoint; an error body has none.
FeaturesOf(response) ==
  IF Has(response.body, "features") THEN response.body.features ELSE Undefined

\* newOverlays (lines 198-204): per overlay name what its fetch returned.
NewOverlays(fs, names) ==
  [n \in {names[i] : i \in DOMAIN names} |->
     FeaturesOf(NetworkDataResponse(fs, NoParam, n))]

\* The fetches that can be pending: two per Map State.
FetchIndexes == 1..(2 * (MaxApplied + 1))

NoLanes == [map |-> "", features |-> <<>>]

\* The page is mounted and the fetch effect has run for the initial state.
MapInit ==
  /\ pendingFetches = StartedFetches(InitialMapState)
  /\ shownLanes = NoLanes
  /\ overlayLayers = EmptyObject

\* The synchronizer applies the output of a new tool part: handleMapChange
\* sets the Map State, GoogleMap3D renders and its fetch effect runs if a
\* dependency changed.
ApplyToolResult(r) ==
  LET n == ToString(Len(applied) + 1)
      part == [type |-> r.type, toolCallId |-> "call" \o n,
               state |-> "output-available", output |-> r.output]
      message == [id |-> "a" \o n, role |-> "assistant", parts |-> <<part>>]
      st == ProcessToolPart(
              [processed |-> processedToolOutputs, applied |-> applied,
               mapState |-> mapState, href |-> locationHref],
              message, part)
      changed == FetchDeps(st.mapState) # FetchDeps(mapState)
  IN  /\ Len(applied) < MaxApplied
      /\ processedToolOutputs' = st.processed
      /\ applied' = st.applied
      /\ mapState' = st.mapState
      /\ locationHref' = st.href
      /\ pendingFetches' =
           IF changed THEN pendingFetches \o StartedFetches(st.mapState)
           ELSE pendingFetches
      /\ overlayLayers' =
           IF changed /\ Len(st.mapState.overlays) = 0 THEN EmptyObject
           ELSE overlayLayers
      /\ UNCHANGED <<shownLanes, notMapVars>>

\* The response of pending fetch i has arrived and its .then callback runs.
FetchCompletes(i) ==
  LET f == pendingFetches[IF i <= Len(pendingFetches) THEN i ELSE 1]
      response == NetworkDataResponse(files, "lanes", f.mapState.baseNetwork)
  IN  /\ i <= Len(pendingFetches)
      /\ pendingFetches' =
           SubSeq(pendingFetches, 1, i - 1)
             \o SubSeq(pendingFetches, i + 1, Len(pendingFetches))
      /\ IF f.part = "base"
           THEN /\ shownLanes' =
                     IF Has(response.body, "features")
                       THEN [map |-> f.mapState.baseNetwork,
                             features |->
                               FeaturesWithColor(response.body.features,
                                                 f.mapState.baseNetwork)]
                     ELSE shownLanes
                /\ UNCHANGED overlayLayers
         ELSE /\ overlayLayers' = NewOverlays(files, f.mapState.overlays)
              /\ UNCHANGED shownLanes
      /\ UNCHANGED <<mapState, processedToolOutputs, applied, locationHref,
                     notMapVars>>

MapNext ==
  \/ \E r \in MapToolResults : ApplyToolResult(r)
  \/ \E i \in FetchIndexes : FetchCompletes(i)

(***************************************************************************)
(* Specifications.                                                         *)
(***************************************************************************)

Init == CacheInit /\ StoreInit /\ SyncInit /\ AnalyzeInit /\ OverlayInit /\ MapInit

Next == CacheNext \/ StoreNext \/ SyncNext \/ AnalyzeNext \/ OverlayNext \/ MapNext

Spec == Init /\ [][Next]_vars

CacheSpec == Init /\ [][CacheNext]_vars

\* The clock runs and the interval timer fires whenever it is due.
CacheLiveSpec ==
  Init /\ [][CacheNext]_vars /\ WF_vars(AdvanceClock) /\ WF_vars(CacheSweep)

StoreSpec == Init /\ [][StoreNext]_vars

SyncSpec == Init /\ [][SyncNext]_vars

AnalyzeSpec == Init /\ [][AnalyzeNext]_vars

OverlaySpec == Init /\ [][OverlayNext]_vars

MapSpec == Init /\ [][MapNext]_vars

(***************************************************************************)
(* Claims about the GeoJSON cache.                                         *)
(***************************************************************************)

FiveMinutes == 5 * 60 * 1000

SixMinutes == 6 * 60 * 1000

Age(k) == now - geojsonCache[k].timestamp

Served == geojsonGET.response.status = 200

JustSwept == nextSweep = now + SweepInterval /\ now > 0

C5_GeojsonDataStatuses ==
  [][geojsonGET' # geojsonGET =>
       LET s == geojsonGET'.sessionId
           r == geojsonGET'.response
       IN  /\ geojsonCache' = geojsonCache
           /\ s \in {NoParam, ""} => r.status = 400
           /\ s \in SessionIds \ DOMAIN geojsonCache => r.status = 404
           /\ s \in DOMAIN geojsonCache =>
                /\ r.status = 200
                /\ r.body = geojsonCache[s].data
                /\ r.cacheControl = NoStore]_vars

\* A GET has returned the data cached under its session id, and the entry is
\* still cached.
C5_Witness ==
  /\ Served
  /\ geojsonGET.sessionId \in DOMAIN geojsonCache
  /\ geojsonGET.response.body = geojsonCache[geojsonGET.sessionId].data
  /\ geojsonGET.response.cacheControl = NoStore

(***************************************************************************)
(* Claims about the map-state synchronizer.                                *)
(***************************************************************************)

\* The tool results of the message list that are available to the effect:
\* pairs of a message and one of its tool parts in state output-available.
AvailableResults ==
  {<<m, p>> \in (DOMAIN messages) \X (1..MaxToolCalls + 1) :
     /\ p \in DOMAIN messages[m].parts
     /\ StartsWith(messages[m].parts[p].type, "tool-")
     /\ messages[m].parts[p].state = "output-available"}

KeyOf(r) == ToolOutputId(messages[r[1]], messages[r[1]].parts[r[2]])

PartOf(r) == messages[r[1]].parts[r[2]]

AppliedFor(key) == {i \in DOMAIN applied : applied[i].id = key}

\* The Map State the page would show after onMapChange was called with the
\* output of a part; none when the output carries neither mapState nor map.
MapStateOf(part) ==
  LET output == IF IsJsonString(part.output) THEN Parse(part.output)
                ELSE part.output
  IN  IF Has(output, "mapState") THEN <<output.mapState>>
      ELSE IF TruthyString(output, "map")
        THEN <<[baseNetwork |-> output.map, overlays |-> <<>>]>>
      ELSE <<>>

\* C1: over any sequence of renders and re-observations of the message
\* list, a (message id, tool type) is applied at most once; once the effect
\* has observed a list in which it is output-available it has been applied
\* exactly once, with the Map State of a result of that message and type; and
\* an effect run applies only (message id, tool type)s it has not seen before,
\* so that observing one a second time applies nothing.
C1_SynchronizerIdempotent ==
  /\ [](\A i, j \in DOMAIN applied : applied[i].id = applied[j].id => i = j)
  /\ [](~effectPending =>
          \A r \in AvailableResults :
            /\ Cardinality(AppliedFor(KeyOf(r))) = 1
            /\ \E q \in AvailableResults :
                 /\ KeyOf(q) = KeyOf(r)
                 /\ \A i \in AppliedFor(KeyOf(r)) :
                      /\ applied[i].toolCallId = PartOf(q).toolCallId
                      /\ applied[i].map = MapStateOf(PartOf(q)))
  /\ [][/\ SubSeq(applied', 1, Len(applied)) = applied
        /\ \A i \in DOMAIN applied' :
             i > Len(applied) => applied'[i].id \notin processedToolOutputs
        /\ (/\ effectPending /\ ~effectPending'
            /\ \A r \in AvailableResults : KeyOf(r) \in processedToolOutputs)
             => /\ applied' = applied
                /\ mapState' = mapState
                /\ locationHref' = locationHref]_vars

\* A result of the first prompt carried a Map State and was applied once;
\* the effect has since run over the lists of a second prompt and its answer.
C1_Witness ==
  /\ ~effectPending
  /\ Len(UserMessages(messages)) = 2
  /\ chatStatus = "ready"
  /\ Len(applied) = 1
  /\ applied[1].map # <<>>
  /\ applied[1].id = "a1-tool-design_parking"
  /\ mapState = DesignMapState

\* C2: once the effect has observed the message list, every tool invocation
\* whose result is output-available has been applied exactly once, whatever
\* the number of invocations in one assistant message.
C2_EveryInvocationAppliedOnce ==
  ~effectPending =>
    \A r \in AvailableResults :
      Cardinality({i \in DOMAIN applied :
                     applied[i].toolCallId = PartOf(r).toolCallId}) = 1

(***************************************************************************)
(* Claims about the tool execution layer and the GeoJSON file store.       *)
(***************************************************************************)

IsCall(tool) == lastCall.kind = "tool" /\ lastCall.tool = tool

\* A width outside [2.0, 4.0] m or a margin outside [0.5, 2.0] m.
OutOfRange(input) ==
  \/ Has(input, "parking_spot_width")
       /\ (input.parking_spot_width < 20 \/ input.parking_spot_width > 40)
  \/ Has(input, "dooring_margin")
       /\ (input.dooring_margin < 5 \/ input.dooring_margin > 20)

RuleInRange(rule) ==
  IF rule.attribute = "parking_spot_width"
    THEN rule.value_min >= 20 /\ rule.value_max <= 40
  ELSE rule.value_min >= 5 /\ rule.value_max <= 20

\* C6: a design_parking invocation with parking_spot_width outside
\* [2.0, 4.0] or dooring_margin outside [0.5, 2.0] is rejected, sends no
\* POST /design and writes no file; every POST /design carries in-range values.
C6_DesignValidatesBeforeBackend ==
  /\ [][(lastCall'.kind = "tool" /\ lastCall'.tool = "design_parking"
           /\ OutOfRange(lastCall'.input))
          => /\ ~lastCall'.accepted
             /\ lastCall'.upstream = <<>>
             /\ files' = files]_vars
  /\ [](IsCall("design_parking") =>
          \A i \in DOMAIN lastCall.upstream :
            \A j \in DOMAIN lastCall.upstream[i].body.rules :
              RuleInRange(lastCall.upstream[i].body.rules[j]))

\* An out-of-range invocation was rejected after an earlier design had
\* written its files.
C6_Witness ==
  /\ IsCall("design_parking")
  /\ OutOfRange(lastCall.input)
  /\ ~lastCall.accepted
  /\ files[DesignDir \o "/parking_spots.geojson"] # NoFile

UpstreamFailed ==
  \/ IsCall("design_parking") /\ lastCall.outcome \in {"status", "network_error"}
  \/ IsCall("jump_to_location")
       /\ lastCall.outcome \in {"no_key", "not_ok", "network_error"}

\* C7: when the design backend answers non-2xx or the call fails,
\* design_parking returns status 'error' with a message; when geocoding of a
\* given address fails, jump_to_location returns status 'error' with a message
\* and no camera; no exception escapes a tool, and a tool invocation calls its
\* upstream service at most once.
C7_UpstreamFailureReported ==
  lastCall.kind = "tool" /\ lastCall.accepted =>
    /\ ~lastCall.threw
    /\ Len(lastCall.upstream) <= 1
    /\ UpstreamFailed =>
         /\ lastCall.output.status = "error"
         /\ Has(lastCall.output, "message") /\ lastCall.output.message # ""
         /\ ~Has(lastCall.output, "camera")
         /\ ~Has(lastCall.output, "mapState")

\* The design backend has answered non-2xx to the one POST of an invocation,
\* which returned an error result.
C7_Witness ==
  /\ IsCall("design_parking")
  /\ lastCall.outcome = "status"
  /\ Len(lastCall.upstream) = 1
  /\ lastCall.output.status = "error"

\* A design_parking invocation has succeeded on a backend answer that holds
\* all three collections.
DesignSucceeded ==
  /\ IsCall("design_parking") /\ lastCall.accepted
  /\ lastCall.output.status = "success"
  /\ \A f \in DesignFiles : files[f] # NoFile

HasDisplayStyling(feature) ==
  Has(feature.properties, "color") /\ Has(feature.properties, "stroke_width")

PersistedCollections ==
  {"parking_spots", "safety_margins", "remaining_roadway_width"}

\* C8: after a successful design_parking, every feature of every persisted
\* collection (parking_spots, safety_margins, remaining_roadway_width) carries
\* display styling, and the returned Map State's base network and overlays
\* name the three persisted collections.
C8_DesignAnnotatesAllAndPointsAtThem ==
  DesignSucceeded =>
    /\ \A c \in PersistedCollections :
         LET text == files[DesignDir \o "/" \o c \o ".geojson"]
         IN  text # NoFile =>
               \A i \in DOMAIN Parse(text).features :
                 HasDisplayStyling(Parse(text).features[i])
    /\ LET named == {lastCall.output.mapState.baseNetwork}
                      \cup {lastCall.output.mapState.overlays[i] :
                              i \in DOMAIN lastCall.output.mapState.overlays}
       IN  \A c \in PersistedCollections : (DesignDir \o "/" \o c) \in named

C10_UnknownMapFallsBackToDefault ==
  (/\ lastCall.kind = "GET"
   /\ lastCall.readable
   /\ ParamOr(lastCall.type, "lanes") # "streets"
   /\ lastCall.map \notin DOMAIN MapFiles)
    => /\ lastCall.response.status = 200
       /\ lastCall.response.body =
            ShippedCollection(ZurichDir \o "/curbs.geojson")

(***************************************************************************)
(* Claims about the statuses of GET /network-data.                         *)
(***************************************************************************)

\* The request names a map that is not in the name table (type not streets).
UnmappedRequest ==
  /\ lastCall.kind = "GET"
  /\ ParamOr(lastCall.type, "lanes") # "streets"
  /\ ~Falsy(lastCall.map)
  /\ lastCall.map \notin DOMAIN MapFiles

\* C11 (as stated): a request for an unmapped map name is answered 404.
C11_UnmappedNameIsNotFound == UnmappedRequest => lastCall.response.status = 404

\* C11 (amended): the map data endpoint answers 200 or 500 and never 404: an
\* unmapped name is answered 200 with the default collection or, when the
\* lookup or the read fails, 500; an unreadable file is answered 500; every 500
\* carries the JSON body {error: 'Failed to load network data'}.
C11_OnlySuccessOrServerError ==
  lastCall.kind = "GET" =>
    /\ lastCall.response.status \in {200, 500}
    /\ ~lastCall.readable => lastCall.response.status = 500
    /\ lastCall.response.status = 500 =>
         /\ lastCall.response.body = [error |-> "Failed to load network data"]
         /\ lastCall.response.contentType = "application/json"
    /\ (UnmappedRequest /\ lastCall.response.status = 200) =>
         lastCall.response.body = ShippedCollection(ZurichDir \o "/curbs.geojson")

\* An unmapped name was requested while the store was unreadable, and the
\* answer was the 500 of the catch block.
C11_Witness ==
  /\ UnmappedRequest
  /\ lastCall.map = "no_such_map"
  /\ ~lastCall.readable
  /\ lastCall.response.status = 500

(***************************************************************************)
(* Claims about the results of reset, transform and jump_to_location.      *)
(***************************************************************************)

\* C12: every reset_network invocation, whatever ran before it, returns
\* status 'success' with total_lanes = 3030 and lane_types motor = 3030,
\* bicycle = 0, green = 0.
C12_ResetIsConstant ==
  IsCall("reset_network") =>
    /\ lastCall.output.status = "success"
    /\ lastCall.output.total_lanes = 3030
    /\ lastCall.output.lane_types = [motor |-> 3030, bicycle |-> 0, green |-> 0]

\* A reset after a design_parking that has written its files.
C12_Witness ==
  /\ IsCall("reset_network")
  /\ files[DesignDir \o "/parking_spots.geojson"] # NoFile
  /\ lastCall.output.total_lanes = 3030

CyclingCorridorCall ==
  /\ IsCall("transform_network") /\ lastCall.accepted
  /\ lastCall.input.transformation_type = "cycling_corridor"

\* C13 (as stated): transform_network with type cycling_corridor returns
\* lane_types motor 2940, bicycle 74, green 43 and total_lanes 3047.
C13_CyclingCorridorTotalIs3047 ==
  CyclingCorridorCall =>
    /\ lastCall.output.lane_types = [motor |-> 2940, bicycle |-> 74, green |-> 43]
    /\ lastCall.output.total_lanes = 3047

\* C13 (amended): transform_network with type cycling_corridor returns
\* lane_types motor 2940, bicycle 74, green 43 and total_lanes
\* 3030 + 74 + 43, which is 3147.
C13_CyclingCorridorNumbers ==
  CyclingCorridorCall =>
    /\ lastCall.output.status = "success"
    /\ lastCall.output.lane_types = [motor |-> 2940, bicycle |-> 74, green |-> 43]
    /\ lastCall.output.total_lanes = 3030 + 74 + 43
    /\ lastCall.output.total_lanes = 3147

C13_Witness ==
  /\ CyclingCorridorCall
  /\ lastCall.output.total_lanes = 3147
  /\ lastCall.output.map = "cycling_corridor"

JumpAccepted == IsCall("jump_to_location") /\ lastCall.accepted

CameraAt(lat, lng) ==
  /\ Has(lastCall.output, "camera")
  /\ lastCall.output.camera.lat = lat
  /\ lastCall.output.camera.lng = lng

\* C15: jump_to_location resolves the camera by strict priority: the
\* geocoded address if a (non-empty) address is given; otherwise the explicit
\* coordinates if both custom_lat and custom_lng are given, whatever their
\* values, 0 included; otherwise the named preset; otherwise the default
\* preset (Eixample).
C15_JumpPriority ==
  JumpAccepted =>
    LET input == lastCall.input
    IN  IF TruthyString(input, "address")
          THEN lastCall.outcome # "none"
                 /\ (lastCall.output.status = "success"
                       => lastCall.outcome = "ok"
                            /\ lastCall.output.location_name # "Custom Location")
        ELSE IF Has(input, "custom_lat") /\ Has(input, "custom_lng")
          THEN /\ lastCall.output.location_name = "Custom Location"
               /\ CameraAt(input.custom_lat, input.custom_lng)
        ELSE IF Has(input, "location")
          THEN /\ lastCall.output.location_name = Locations[input.location].name
               /\ CameraAt(Locations[input.location].lat,
                           Locations[input.location].lng)
        ELSE /\ lastCall.output.location_name = "Eixample District"
             /\ CameraAt(413935, 21644)

\* C16: every successful jump_to_location result carries a camera, and its
\* in_coverage flag says whether the camera's (lat, lng) lies in the box
\* lat in [41.375, 41.412], lng in [2.142, 2.187], for geocoded,
\* custom-coordinate, preset and default results alike.
C16_CoverageIsAdvisory ==
  (JumpAccepted /\ lastCall.output.status = "success") =>
    /\ Has(lastCall.output, "camera")
    /\ lastCall.output.in_coverage =
         (/\ lastCall.output.camera.lat >= 413750
          /\ lastCall.output.camera.lat <= 414120
          /\ lastCall.output.camera.lng >= 21420
          /\ lastCall.output.camera.lng <= 21870)

\* A jump to custom coordinates whose latitude is inside the box and whose
\* longitude is outside: navigation is not blocked, the flag is false.
C16_Witness ==
  /\ JumpAccepted
  /\ lastCall.output.status = "success"
  /\ lastCall.output.location_name = "Custom Location"
  /\ CameraAt(413900, 90000)
  /\ lastCall.output.in_coverage = FALSE


\* C29: a result of analyze_network has status 'success' only if the
\* analysis completed: when the collection cannot be read or parsed, the
\* result has status 'error', never 'success' next to an error field.
C29_FailedAnalysisHasErrorStatus ==
  IsCall("analyze_network") /\ Has(lastCall.output, "error")
    => lastCall.output.status = "error"
(***************************************************************************)
(* Claims about micro_transformation and the live Map State.               *)
(***************************************************************************)

\* The effect has applied exactly one more tool result, of the given type.
AppliesOne(type) ==
  /\ Len(applied') = Len(applied) + 1
  /\ applied'[Len(applied')].type = type

\* C14: when the result of a micro_transformation is applied, the live Map
\* State keeps its base network, and its overlay list is the list before
\* extended with the 1 or 2 overlays of the transformation type.
C14_MicroPreservesBaseNetwork ==
  [][AppliesOne("tool-micro_transformation") =>
       /\ mapState'.baseNetwork = mapState.baseNetwork
       /\ Len(mapState'.overlays) \in {Len(mapState.overlays) + 1,
                                       Len(mapState.overlays) + 2}
       /\ SubSeq(mapState'.overlays, 1, Len(mapState.overlays))
            = mapState.overlays]_vars

(***************************************************************************)
(* Claims about analyzeNetwork.                                            *)
(***************************************************************************)

Analysed(analysisType) == lastAnalysis.analysisType = analysisType

\* analyze("lanes", filter = "L") on a collection without bicycle lanes.
BicycleFilterOnNoBicycleLanes ==
  /\ Analysed("lanes")
  /\ lastAnalysis.laneTypeFilter = "L"
  /\ \A i \in DOMAIN lastAnalysis.features :
       LaneTypeOf(lastAnalysis.features[i]) # "L"

\* C17 (as stated): analyze with analysis type lanes and filter L on a
\* collection containing zero bicycle lanes returns a non-error result that
\* reports count 0 for the filtered lane type together with an empty
\* sample-location list.
C17_ZeroCountWithEmptySampleList ==
  BicycleFilterOnNoBicycleLanes =>
    /\ ~Has(lastAnalysis.result, "error")
    /\ Has(lastAnalysis.result.lane_statistics, "L")
    /\ lastAnalysis.result.lane_statistics["L"].count = 0
    /\ lastAnalysis.result.lane_statistics["L"].sample_locations = <<>>

\* C17 (amended): analyze with analysis type lanes and filter L on a
\* collection containing zero bicycle lanes returns a non-error result with
\* total_lanes 0, a lane_statistics object without any entry (so neither a
\* count nor a sample-location list for the filtered type) and the message
\* "Found 0 Bicycle lanes".
C17_ZeroLanesAndNoStatisticsEntry ==
  BicycleFilterOnNoBicycleLanes =>
    /\ ~Has(lastAnalysis.result, "error")
    /\ lastAnalysis.result.total_lanes = 0
    /\ lastAnalysis.result.lane_statistics = EmptyObject
    /\ lastAnalysis.result.message = "Found 0 Bicycle lanes"

\* The filter applied to a collection that holds lanes, none of them bicycle.
C17_Witness ==
  /\ BicycleFilterOnNoBicycleLanes
  /\ \E i \in DOMAIN lastAnalysis.features :
       LaneTypeOf(lastAnalysis.features[i]) = "M"
  /\ lastAnalysis.result.total_lanes = 0

IsNumber(x) == x.kind = "number"

Smaller(a, b) == IF a < b THEN a ELSE b

\* As many samples as the group has features, up to the limit, each with a
\* number for lng and a number for lat.
NumericSamples(samples, limit, groupSize) ==
  /\ Len(samples) = Smaller(limit, groupSize)
  /\ \A i \in DOMAIN samples :
       IsNumber(samples[i].lng) /\ IsNumber(samples[i].lat)

\* C18: sample coordinates returned by analyze are real points of the
\* features: for every analysis type and every feature geometry type, each
\* sample location has a number for lng and a number for lat, one sample per
\* feature in collection order up to the group limit (5 per lane type, 10 for
\* parking and charging stations).
C18_SamplesAreVerticesOfTheFeatures ==
  LET r == lastAnalysis.result
  IN  /\ Analysed("lanes") =>
           \A c \in DOMAIN r.lane_statistics :
             NumericSamples(r.lane_statistics[c].sample_locations, 5,
                            r.lane_statistics[c].count)
      /\ Analysed("parking") \/ Analysed("ev_parking") =>
           NumericSamples(r.sample_locations, 10, r.total_spaces)
      /\ Analysed("charging_stations") =>
           NumericSamples(r.sample_locations, 10, r.total_stations)

(***************************************************************************)
(* Claims about NetworkOverlay.                                            *)
(***************************************************************************)

\* The primitives on the map that layer l created, in document order.
OnMap(l) == SelectSeq(map3d.children, LAMBDA e : e.layer = l)

Shown(l) == overlays[l].mounted /\ overlays[l].visible

\* C19: rendering teardown: after any sequence of draw passes, feature-list
\* changes, visibility toggles and unmounts of an overlay layer, the
\* primitives on the map that belong to that layer are exactly those created
\* by its latest draw pass (none while it is hidden or unmounted); no
\* primitive from an earlier draw pass remains on the map.
C19_LayerShowsItsLatestDrawPass ==
  \A l \in Layers :
    /\ OnMap(l) = drawn[l]
    /\ ~Shown(l) => OnMap(l) = <<>>

\* No layer holds a primitive on the map that the draw pass of its current
\* effect did not create.
NoStalePrimitive ==
  \A l \in Layers :
    \A i \in DOMAIN OnMap(l) : \E j \in DOMAIN drawn[l] : OnMap(l)[i] = drawn[l][j]

Classified(props) ==
  TruthyString(props, "lane_type_code") \/ TruthyString(props, "object_type")

ClassificationColors ==
  {LANE_COLORS[c] : c \in DOMAIN LANE_COLORS}
    \cup UNION {{OBJECT_TYPE_COLORS(s)[c] : c \in DOMAIN OBJECT_TYPE_COLORS(s)} :
                  s \in OverlaySources}

\* C20: draw colour priority: for every feature drawn, the draw colour is the
\* explicit feature colour if present; otherwise, whenever a classification
\* (lane_type_code or object_type) is present, a colour from the
\* classification table and never the default gray; the default gray is used
\* only when the feature has neither. This holds for Point features as for
\* lines and polygons.
C20_DrawColorPriority ==
  \A i \in DOMAIN map3d.children :
    LET e == map3d.children[i]
        props == e.lane.properties
    IN  IF TruthyString(props, "color") THEN e.color = props.color
        ELSE IF Classified(props)
          THEN e.color \in ClassificationColors /\ e.color # DefaultGray
        ELSE e.color = DefaultGray


\* C24: no duplicate primitive ids: at every moment no two primitives on the
\* map share an id, across the base layer and the overlay layers, the
\* per-line primitives of MultiLineString features included.
C24_NoDuplicatePrimitiveIds ==
  \A i, j \in DOMAIN map3d.children :
    map3d.children[i].id = map3d.children[j].id => i = j

IsOnMap(e) == \E i \in DOMAIN map3d.children : map3d.children[i] = e

\* C25: layers do not destroy each other's primitives: once no draw pass is
\* outstanding, every primitive that the latest draw pass of a layer created
\* is on the map.
C25_LayersKeepTheirPrimitives ==
  promises = <<>> =>
    \A l \in Layers : \A i \in DOMAIN drawn[l] : IsOnMap(drawn[l][i])
(***************************************************************************)
(* Claims about the live Map State and the data shown for it.              *)
(***************************************************************************)

LastApplied == applied[Len(applied)]

ResetApplied == applied # <<>> /\ LastApplied.type = "tool-reset_network"

\* C21: reset restores the initial state: from every reachable live Map
\* State, applying the result of reset makes the live Map State equal to the
\* canonical initial Map State, the base network and overlay list that are
\* live when the UI starts.
C21_ResetRestoresInitialMapState ==
  ResetApplied =>
    /\ mapState.baseNetwork = InitialMapState.baseNetwork
    /\ mapState.overlays = InitialMapState.overlays

\* C26: every applied Map State is fetched: each step in which the
\* synchronizer applies a tool result that carries a Map State starts a fetch
\* of that state's base network and overlays.
C26_EveryAppliedMapStateIsFetched ==
  [][Len(applied') > Len(applied) /\ applied'[Len(applied')].map # <<>>
       => Len(pendingFetches') > Len(pendingFetches)]_vars

OverlayNames(ms) == {ms.overlays[i] : i \in DOMAIN ms.overlays}

\* C27: drawn data matches the live Map State: once no fetch is pending, the
\* base network shown and the overlay layers shown are those of the live Map
\* State, whatever the order in which the responses arrived.
C27_ShownDataIsOfTheLiveMapState ==
  pendingFetches = <<>> =>
    /\ shownLanes.map = mapState.baseNetwork
    /\ DOMAIN overlayLayers = OverlayNames(mapState)

\* C28: every map name of the live Map State - of the initial state and of
\* the states that reset, transform, micro_transformation and design_parking
\* return - is a key of the map data endpoint's name table.
C28_LiveMapNamesAreKeysOfTheNameTable ==
  \A n \in {mapState.baseNetwork} \cup OverlayNames(mapState) :
    n \in DOMAIN MapFiles


\* ---------------------------------------------------------------------------
\* Claims about the submit handler of the chat
\* ---------------------------------------------------------------------------

Prompts == Len(UserMessages(messages))

\* C22: at most one request to the chat endpoint is in flight: a message is
\* sent only while no request is submitted or streaming, and sending it puts
\* the chat into the submitted state.
C22_OneRequestInFlight ==
  [][Len(UserMessages(messages')) > Prompts
       => /\ chatStatus \notin {"submitted", "streaming"}
          /\ chatStatus' = "submitted"]_vars

\* The second request of a conversation streams, the first one has finished.
C22_Witness == Prompts = 2 /\ chatStatus = "streaming"

\* C30: with beta booking enabled the prompt count is the number of messages
\* sent and never exceeds the prompt limit; with beta=off the count stays 0
\* and the number of messages is not limited by it.
C30_PromptCountWithinLimit ==
  /\ promptCount = (IF betaBookingEnabled THEN Prompts ELSE 0)
  /\ betaBookingEnabled => Prompts <= promptLimit

\* The limit is reached and the chat is ready for a submit, which is refused.
C30_Witness ==
  /\ betaBookingEnabled /\ promptCount = promptLimit
  /\ Prompts = promptLimit /\ chatStatus = "ready" /\ PageLoaded
====
